---- MODULE Spec2Model ----
(***************************************************************************)
(* State-machine model of the s3gui frontend (main.ts, api.ts, types.ts)   *)
(* and of the sync engine it drives.                                       *)
(*                                                                         *)
(* One action is one JavaScript job: an event handler, or the resumption   *)
(* of an async function after an awaited call settles, run to the next     *)
(* point where every active function is suspended on an external call.     *)
(* Promise reactions (the continuation of `await`, `.finally`,             *)
(* `Promise.race`) are microtasks and run inside the job that settles the  *)
(* promise, so they belong to the same action.                             *)
(***************************************************************************)
EXTENDS Integers, Sequences, FiniteSets, TLC

\* ------------------------------------------------------------------------
\* Bounds of the model
\* ------------------------------------------------------------------------
\* largest number of files in one upload batch
MaxFiles == 3
\* largest small concurrency limit tried besides the program's own limit
MaxLimit == 2
\* tasks are created only while taskIdCounter is below this cap
MaxTaskId == 3
\* the clock advances in steps of TickMs up to MaxTime
TickMs == 100
MaxTime == 600
\* largest number of input events on the search box
MaxInputs == 3
\* largest number of sync_once calls in a row
MaxRuns == 2
\* largest number of file-system events delivered to the watch session
MaxFsEvents == 4
\* a handler refused for want of a profile or bucket adds its message only
\* while the list is shorter than this
MaxMessages == 2
\* largest number of sync-progress / sync-completed / sync-error events
MaxTauriEvents == 2

\* deletions made from the rows on display
MaxDeletes == 1

\* clicks on buckets and folders while an upload batch runs
MaxClicks == 2

\* list requests the browser's own handlers make
MaxRequests == 5

\* pages the listing of the larger bucket has
MaxPages == 3

\* ------------------------------------------------------------------------
\* Program constants
\* ------------------------------------------------------------------------
MAX_CONCURRENT_UPLOADS == 20

MAX_VISIBLE_TASKS == 100

\* the length showError keeps the message list at
MAX_ERRORS == 50

\* ------------------------------------------------------------------------
\* Values
\* ------------------------------------------------------------------------
\* an optional value is <<>> (undefined / null) or <<v>>
Undefined == <<>>

Some(x) == <<x>>

\* JavaScript truthiness of an optional string
Truthy(opt) == opt # Undefined /\ opt[1] # ""

\* the invocations of uploadFilesWithTasks that can be under way at once
BatchIds == {"b1", "b2"}

\* one invocation after the other
OneBatch == {"b1"}

OpIds == {"o1"}

\* file paths, already split at / and \ into segments
FilePaths == {<<"d", "a.txt">>}

\* the k-th file of a selection or drop
DroppedFile(k) == <<"d", ToString(k)>>

\* the selections and drops tried: the first k files, k = 1..MaxFiles
FileLists == {[k \in 1..n |-> DroppedFile(k)] : n \in 1..MaxFiles}

\* values an api call rejects with; String(err) of a string is the string
Errs == {"E1", "E2"}

String(err) == err

Limits == (1..MaxLimit) \cup {MAX_CONCURRENT_UPLOADS}

TerminalStatus == {"completed", "failed"}

\* filePath.split(/[/\\]/).pop() || filePath
BaseName(path) ==
    IF Len(path) > 0 /\ path[Len(path)] # "" THEN <<path[Len(path)]>> ELSE path

\* (folder as string).split(/[/\\]/).pop() || "folder"
FolderName(path) ==
    IF Len(path) > 0 /\ path[Len(path)] # "" THEN <<path[Len(path)]>> ELSE <<"folder">>

VARIABLES
    currentProfileId,   \* Undefined or <<profile id>>
    currentBucket,      \* Undefined or <<bucket name>>
    currentPrefix,      \* string
    tasks,              \* the task list, newest batch first
    taskIdCounter,
    batch,              \* per upload batch: the frame of uploadFilesWithTasks / runWithConcurrency
    ops,                \* per single-task operation (delete, sync, keepsync): its frame
    uploadCalls,        \* api.uploadFile invocations made, per batch and item
    uploadOutcomes,     \* how the api.uploadFile call of each item settled, per batch
    statusLog           \* per task id, the statuses it was given, in order

\* the task panel
VARIABLES
    renderScheduled,    \* a requestAnimationFrame callback is registered
    lastRender          \* the items of the task list as last written to the panel

renderVars == <<renderScheduled, lastRender>>

\* the message list in the footer
VARIABLES
    errors,             \* the messages shown, newest first; a message is the sequence of its parts
    tauriEvents         \* number of sync-progress / sync-completed / sync-error events received

messageVars == <<errors, tauriEvents>>

uiVars == <<currentProfileId, currentBucket, currentPrefix, tasks, taskIdCounter,
            batch, ops, uploadCalls, uploadOutcomes, statusLog, renderVars, messageVars>>

VARIABLES
    now,                \* the clock, in milliseconds
    searchInputValue,   \* searchPrefixInput.value
    searchPrefix,
    searchTimeout,      \* Undefined or <<id of the last timer set>>
    timers,             \* the armed timers: id, due time, the value the callback captured
    nextTimerId,
    loadCalls,          \* the loadObjects() calls made: by whom, with which searchPrefix, when
    inputEvents         \* the input events so far: value and arrival time

searchVars == <<now, searchInputValue, searchPrefix, searchTimeout, timers, nextTimerId,
                loadCalls, inputEvents>>

\* the object browser
VARIABLES
    viewMode,           \* "list" or "grid"
    objects,            \* Undefined, or <<the listing on display>>: the request it answers, its page
    continuationToken,  \* Undefined (null) or <<token>>
    tokenHistory,       \* the tokens of the pages gone through
    hasMoreData,
    isLoading,
    isLoadingMore,
    selectedKeys,       \* the keys ticked in the listing
    pending,            \* the api.listObjects calls not yet settled, in the order made
    requestsMade,       \* the number of list requests the browser's handlers have made
    errorScrollIndex    \* index of the first message on display in the footer

listVars == <<viewMode, objects, continuationToken, tokenHistory, hasMoreData, isLoading,
              isLoadingMore, selectedKeys, pending, requestsMade>>

browserVars == <<listVars, errorScrollIndex>>

\* the variables the task panel, upload and single-task actions leave alone
\* the sync engine behind sync_folder
VARIABLES
    local,              \* the local tree: relative path -> fingerprint or Absent
    remote,             \* the objects under the prefix: relative path -> fingerprint or Absent
    syncBatch,          \* the batch sync_once is running or has last finished
    syncRuns,           \* number of sync_once calls made
    changedSince,       \* a side was changed from outside since the last batch started
    localRoot,          \* "directory", or "missing": the local root cannot be enumerated
    syncCall            \* id of the task whose sync_folder command was last served, or 0

syncVars == <<local, remote, syncBatch, syncRuns, changedSince, localRoot, syncCall>>

\* one watch session behind start_keep_sync / stop_keep_sync
VARIABLES
    watchState,         \* "created", "watching", "stopping" or "stopped"
    debounceArmed,      \* file-system events are waiting in the debounce window
    inFlight,           \* reconciliations of the session now running
    queuedRuns,         \* runs requested while a reconciliation was running
    fsEvents,           \* file-system events delivered so far
    runsStarted,        \* reconciliations started so far
    watchEvents,        \* the completed / error events emitted so far, in order
    midRunTriggers      \* triggers that arrived during the reconciliation now running

watchVars == <<watchState, debounceArmed, inFlight, queuedRuns, fsEvents, runsStarted,
               watchEvents, midRunTriggers>>

nonUiVars == <<searchVars, browserVars, syncVars, watchVars>>

vars == <<uiVars, nonUiVars>>

\* ------------------------------------------------------------------------
\* Task management (main.ts, "Task management")
\* ------------------------------------------------------------------------
\* `task-${++taskIdCounter}`: the id is identified with the counter value it embeds
generateTaskId_Wraps(counter) == (counter % 2) + 1

generateTaskId(counter) == counter + 1

NewTask(id, type, fileName) ==
    [id |-> id, type |-> type, fileName |-> fileName, status |-> "pending",
     error |-> Undefined, syncId |-> Undefined]

\* tasks.unshift(task)
addTask(ts, counter, type, fileName) ==
    <<NewTask(generateTaskId(counter), type, fileName)>> \o ts

\* fileNames.map(...) then tasks.unshift(...newTasks)
addTasksBatch(ts, counter, type, fileNames) ==
    [k \in 1..Len(fileNames) |-> NewTask(generateTaskId(counter + k - 1), type, fileNames[k])] \o ts

HasTask(ts, taskId) == \E k \in 1..Len(ts) : ts[k].id = taskId

\* tasks.find(t => t.id === taskId): index of the first match
FindTask(ts, taskId) ==
    CHOOSE k \in 1..Len(ts) : ts[k].id = taskId /\ \A j \in 1..(k - 1) : ts[j].id # taskId

updateTaskStatus(ts, taskId, status, error) ==
    IF HasTask(ts, taskId)
    THEN [ts EXCEPT ![FindTask(ts, taskId)] =
              [@ EXCEPT !.status = status,
                        !.error = IF Truthy(error) THEN error ELSE @]]
    ELSE ts

IsActiveTask_OnlyPending(t) == t.status = "pending"

IsActiveTask(t) == t.status # "completed" /\ t.status # "failed"

\* tasks.filter(t => t.status !== "completed" && t.status !== "failed")
clearCompletedTasks(ts) == SelectSeq(ts, IsActiveTask)

\* the record of statuses a task was given: grows exactly when updateTaskStatus assigns
LogStatus(ts, log, taskId, status) ==
    IF HasTask(ts, taskId) THEN [log EXCEPT ![taskId] = Append(@, status)] ELSE log

LogCreated(log, counter, n) ==
    [id \in 1..(counter + n) |-> IF id <= counter THEN log[id] ELSE <<"pending">>]

StatusOf(ts, taskId) == ts[FindTask(ts, taskId)].status

Selected == Truthy(currentProfileId) /\ Truthy(currentBucket)

\* showError(message): errors.unshift(message); if (errors.length > 50) errors.pop()
showError_Replaces(errs, message) == <<message>>

showError(errs, message) ==
    LET grown == <<message>> \o errs
    IN  IF Len(grown) > MAX_ERRORS THEN SubSeq(grown, 1, Len(grown) - 1) ELSE grown

RECURSIVE ShowAll(_, _)
\* showError for each message of a list, in order
ShowAll(errs, messages) ==
    IF messages = <<>> THEN errs
    ELSE ShowAll(showError(errs, Head(messages)), Tail(messages))

PleaseSelect == <<"Please select a profile and bucket first">>

\* a handler returns early for want of a profile or bucket, with a message or without
NotSelected(warns) ==
    /\ warns => Len(errors) < MaxMessages
    /\ errors' = IF warns THEN showError(errors, PleaseSelect) ELSE errors
    /\ UNCHANGED <<nonUiVars, tauriEvents, currentProfileId, currentBucket, currentPrefix,
                   tasks, taskIdCounter, batch, ops, uploadCalls, uploadOutcomes,
                   statusLog, renderVars>>

\* scheduleRender(): register the frame callback unless one is registered
scheduleRender_Never(scheduled) == scheduled

scheduleRender(scheduled) == TRUE

\* the scheduleRender() call of updateTaskStatus, made when the task was found
RenderIfFound(ts, taskId, scheduled) ==
    IF HasTask(ts, taskId) THEN scheduleRender(scheduled) ELSE scheduled

\* runningTextMap
RunningText(type) ==
    CASE type = "upload" -> "Uploading..."
      [] type = "delete" -> "Deleting..."
      [] type = "sync" -> "Syncing..."
      [] OTHER -> "Watching..."

\* the status line renderTasks writes for a task; error text is <<text>>
StatusText(t) ==
    CASE t.status = "pending" -> <<"Waiting...">>
      [] t.status = "running" -> <<RunningText(t.type)>>
      [] t.status = "completed" -> <<"Completed">>
      [] OTHER -> IF Truthy(t.error) THEN t.error ELSE <<"Failed">>

\* renderTasks(): the items written for the first MAX_VISIBLE_TASKS tasks
renderTasks(ts) ==
    [k \in 1..(IF Len(ts) < MAX_VISIBLE_TASKS THEN Len(ts) ELSE MAX_VISIBLE_TASKS) |->
        [id |-> ts[k].id, type |-> ts[k].type, fileName |-> ts[k].fileName,
         status |-> ts[k].status, statusText |-> StatusText(ts[k])]]

\* the callback scheduleRender registered with requestAnimationFrame
AnimationFrame ==
    /\ renderScheduled
    /\ renderScheduled' = FALSE
    /\ lastRender' = renderTasks(tasks)
    /\ UNCHANGED <<nonUiVars, messageVars, currentProfileId, currentBucket, currentPrefix, tasks,
                   taskIdCounter, batch, ops, uploadCalls, uploadOutcomes, statusLog>>

\* ------------------------------------------------------------------------
\* Object browser: loadObjects and the handlers that call it
\* ------------------------------------------------------------------------
Buckets == {"bk1", "bk2"}

Prefixes == {"", "d/"}

\* list_objects pages its answer: the small bucket fits one page
PagesOf(bucket) == IF bucket = "bk1" THEN 1 ELSE MaxPages

\* the keys a listing of the bucket returns; no key is in both buckets
ObjectKeys(bucket) == IF bucket = "bk1" THEN {<<"x1">>} ELSE {<<"x2">>}

\* the page a request asks for: the first without a token
PageOf(token) == IF token = Undefined THEN 1 ELSE token[1]

\* result.next_continuation_token || null
NextToken(bucket, token) ==
    IF PageOf(token) < PagesOf(bucket) THEN Some(PageOf(token) + 1) ELSE Undefined

\* result.is_truncated
IsTruncated(bucket, token) == PageOf(token) < PagesOf(bucket)

\* searchPrefix ? currentPrefix + searchPrefix : (currentPrefix || undefined)
EffectivePrefix(prefix, search) ==
    IF search # "" THEN <<prefix, search>>
    ELSE IF prefix # "" THEN <<prefix>> ELSE Undefined

\* who awaits a list request: a handler of the browser, a single-task operation
\* or an upload batch
ByBrowser == <<"browser", "">>

ByOp(o) == <<"op", o>>

ByBatch(b) == <<"batch", b>>

\* api.listObjects(currentProfileId, currentBucket, effectivePrefix, continuationToken || undefined)
ListRequest(by, append, profileId, bucket, prefix, search, token) ==
    [by |-> by, append |-> append, profileId |-> profileId[1],
     bucket |-> bucket[1], prefix |-> EffectivePrefix(prefix, search), token |-> token,
     overtaken |-> FALSE]

\* loadObjects(append) up to its await, reading the given values of the
\* selection, the prefix, the search text and the token
loadObjects(append, by, profileId, bucket, prefix, search, token) ==
    IF Truthy(profileId) /\ Truthy(bucket)
    THEN /\ pending' = Append(pending,
                ListRequest(by, append, profileId, bucket, prefix, search, token))
         /\ requestsMade' = IF by = ByBrowser THEN requestsMade + 1 ELSE requestsMade
         /\ isLoading' = (IF append THEN isLoading ELSE TRUE)
    ELSE UNCHANGED <<pending, requestsMade, isLoading>>

\* what loadObjects() does when its list request settles
LoadFailed(errs, outcome) ==
    IF outcome.ok THEN errs
    ELSE showError(errs, <<"Failed to load objects: ", String(outcome.err)>>)

\* what renderObjects and updatePagination put on the page: the answer to the
\* request, and the buttons and page label as tokenHistory.length then gives them
Listing(r, historyLength) ==
    [append |-> r.append, profileId |-> r.profileId, bucket |-> r.bucket,
     prefix |-> r.prefix, token |-> r.token, overtaken |-> r.overtaken,
     historyLength |-> historyLength]

\* nextPageBtn.disabled = !hasMore
NextPageEnabled == hasMoreData

\* prevPageBtn.disabled = tokenHistory.length === 0, as of the last answer
PrevPageEnabled == objects # Undefined /\ objects[1].historyLength > 0

\* the requests in flight once the k-th has settled; when its answer is shown,
\* the requests made before it are marked as overtaken by a later one
StillPending(reqs, k, shown) ==
    [j \in 1..(Len(reqs) - 1) |->
        IF j < k THEN [reqs[j] EXCEPT !.overtaken = @ \/ shown] ELSE reqs[j + 1]]

\* loadObjects after its await: the answer replaces the listing and the token,
\* or the catch branch shows a message; the finally branch clears both flags
ListSettled(k, outcome) ==
    /\ k \in DOMAIN pending
    /\ pending' = StillPending(pending, k, outcome.ok)
    /\ IF outcome.ok
       THEN /\ objects' = Some(Listing(pending[k], Len(tokenHistory)))
            /\ continuationToken' = NextToken(pending[k].bucket, pending[k].token)
            /\ hasMoreData' = IsTruncated(pending[k].bucket, pending[k].token)
       ELSE UNCHANGED <<objects, continuationToken, hasMoreData>>
    /\ errors' = LoadFailed(errors, outcome)
    /\ isLoading' = FALSE
    /\ isLoadingMore' = FALSE
    /\ UNCHANGED <<viewMode, tokenHistory, selectedKeys, requestsMade, errorScrollIndex>>

\* the variables of the task panel
taskVars == <<tasks, taskIdCounter, batch, ops, uploadCalls, uploadOutcomes, statusLog, renderVars>>

\* the variables of the search box's timer
timerVars == <<now, searchTimeout, timers, nextTimerId, loadCalls, inputEvents>>

\* the list request of a browser handler settles
ListSettles(k, outcome) ==
    /\ pending[k].by = ByBrowser
    /\ ListSettled(k, outcome)
    /\ UNCHANGED <<taskVars, tauriEvents, currentProfileId, currentBucket, currentPrefix,
                   searchVars, syncVars, watchVars>>

\* selectedKeys.clear()
clearSelection == {}

\* a click on a bucket of the sidebar
selectBucket(name) ==
    /\ requestsMade < MaxRequests
    /\ Truthy(currentProfileId)
    /\ currentBucket' = Some(name)
    /\ currentPrefix' = ""
    /\ continuationToken' = Undefined
    /\ tokenHistory' = <<>>
    /\ searchPrefix' = ""
    /\ searchInputValue' = ""
    /\ selectedKeys' = clearSelection
    /\ loadObjects(FALSE, ByBrowser, currentProfileId, Some(name), "", "", Undefined)
    /\ UNCHANGED <<taskVars, messageVars, currentProfileId, timerVars, syncVars, watchVars,
                   viewMode, objects, hasMoreData, isLoadingMore, errorScrollIndex>>

\* a click on a folder row or on a breadcrumb
navigateToPrefix(prefix) ==
    /\ requestsMade < MaxRequests
    /\ Selected
    /\ currentPrefix' = prefix
    /\ continuationToken' = Undefined
    /\ tokenHistory' = <<>>
    /\ searchPrefix' = ""
    /\ searchInputValue' = ""
    /\ selectedKeys' = clearSelection
    /\ loadObjects(FALSE, ByBrowser, currentProfileId, currentBucket, prefix, "", Undefined)
    /\ UNCHANGED <<taskVars, messageVars, currentProfileId, currentBucket, timerVars, syncVars,
                   watchVars, viewMode, objects, hasMoreData, isLoadingMore, errorScrollIndex>>

\* trimmed = currentPrefix.replace(/\/$/, ""); the part of it up to its last slash,
\* or "" when it has none: for the prefixes of the model
ParentPrefix(prefix) == IF prefix = "d/e/" THEN "d/" ELSE ""

\* the "up" button
goToParent ==
    /\ requestsMade < MaxRequests
    /\ currentPrefix # ""
    /\ currentPrefix' = ParentPrefix(currentPrefix)
    /\ continuationToken' = Undefined
    /\ tokenHistory' = <<>>
    /\ selectedKeys' = clearSelection
    /\ loadObjects(FALSE, ByBrowser, currentProfileId, currentBucket,
                   ParentPrefix(currentPrefix), searchPrefix, Undefined)
    /\ UNCHANGED <<taskVars, messageVars, currentProfileId, currentBucket, searchVars, syncVars,
                   watchVars, viewMode, objects, hasMoreData, isLoadingMore, errorScrollIndex>>

\* the refresh button: () => loadObjects(), with the token as it stands
refreshObjects ==
    /\ requestsMade < MaxRequests
    /\ Selected
    /\ loadObjects(FALSE, ByBrowser, currentProfileId, currentBucket, currentPrefix,
                   searchPrefix, continuationToken)
    /\ UNCHANGED <<uiVars, searchVars, syncVars, watchVars, viewMode, objects, continuationToken,
                   tokenHistory, hasMoreData, isLoadingMore, selectedKeys, errorScrollIndex>>

\* the "next" button of the list view
nextPage ==
    /\ requestsMade < MaxRequests
    /\ viewMode = "list"
    /\ continuationToken # Undefined
    /\ tokenHistory' = Append(tokenHistory, continuationToken[1])
    /\ loadObjects(FALSE, ByBrowser, currentProfileId, currentBucket, currentPrefix,
                   searchPrefix, continuationToken)
    /\ UNCHANGED <<uiVars, searchVars, syncVars, watchVars, viewMode, objects, continuationToken,
                   hasMoreData, isLoadingMore, selectedKeys, errorScrollIndex>>

\* tokenHistory.pop(); continuationToken = tokenHistory[tokenHistory.length - 1] || null
PoppedToken(history) ==
    IF Len(history) > 1 THEN Some(history[Len(history) - 1]) ELSE Undefined

\* the "previous" button of the list view
previousPage ==
    /\ requestsMade < MaxRequests
    /\ viewMode = "list"
    /\ Len(tokenHistory) > 0
    /\ tokenHistory' = SubSeq(tokenHistory, 1, Len(tokenHistory) - 1)
    /\ continuationToken' = PoppedToken(tokenHistory)
    /\ loadObjects(FALSE, ByBrowser, currentProfileId, currentBucket, currentPrefix,
                   searchPrefix, PoppedToken(tokenHistory))
    /\ UNCHANGED <<uiVars, searchVars, syncVars, watchVars, viewMode, objects,
                   hasMoreData, isLoadingMore, selectedKeys, errorScrollIndex>>

\* the list / grid buttons; going from list to grid starts over from the first page
setViewMode(mode) ==
    /\ requestsMade < MaxRequests
    /\ viewMode' = mode
    /\ IF mode = "grid" /\ viewMode = "list"
       THEN /\ continuationToken' = Undefined
            /\ tokenHistory' = <<>>
            /\ loadObjects(FALSE, ByBrowser, currentProfileId, currentBucket, currentPrefix,
                           searchPrefix, Undefined)
       ELSE UNCHANGED <<continuationToken, tokenHistory, pending, requestsMade, isLoading>>
    /\ UNCHANGED <<uiVars, searchVars, syncVars, watchVars, objects, hasMoreData, isLoadingMore,
                   selectedKeys, errorScrollIndex>>

\* the condition under which the observer of the grid's sentinel calls loadMoreGridItems
ObserverFires == hasMoreData /\ ~isLoadingMore /\ ~isLoading

\* the sentinel below the grid scrolls into view: the observer's callback, and
\* loadMoreGridItems up to its await
loadMoreGridItems ==
    /\ requestsMade < MaxRequests
    /\ viewMode = "grid"
    /\ ObserverFires
    /\ continuationToken # Undefined /\ ~isLoadingMore
    /\ isLoadingMore' = TRUE
    /\ tokenHistory' = Append(tokenHistory, continuationToken[1])
    /\ loadObjects(TRUE, ByBrowser, currentProfileId, currentBucket, currentPrefix,
                   searchPrefix, continuationToken)
    /\ UNCHANGED <<uiVars, searchVars, syncVars, watchVars, viewMode, objects, continuationToken,
                   hasMoreData, selectedKeys, errorScrollIndex>>

\* the keys of the rows on display
DisplayedKeys == IF objects = Undefined THEN {} ELSE ObjectKeys(objects[1].bucket)

\* a row's checkbox is ticked or cleared
toggleObjectSelection(key, selected) ==
    /\ key \in DisplayedKeys
    /\ selectedKeys' = IF selected THEN selectedKeys \cup {key} ELSE selectedKeys \ {key}
    /\ selectedKeys' # selectedKeys
    /\ UNCHANGED <<uiVars, searchVars, syncVars, watchVars, viewMode, objects, continuationToken,
                   tokenHistory, hasMoreData, isLoading, isLoadingMore, pending, requestsMade,
                   errorScrollIndex>>

\* ------------------------------------------------------------------------
\* Upload batches: uploadFilesWithTasks and runWithConcurrency
\* ------------------------------------------------------------------------
IdleBatch ==
    [phase |-> "idle", filePaths |-> <<>>, taskIds |-> <<>>,
     profileId |-> Undefined, bucket |-> Undefined, prefix |-> "",
     concurrency |-> 0, queue |-> <<>>, running |-> <<>>, inflight |-> {},
     targets |-> <<>>]

\* batch.targets: per item, the profile, bucket and prefix api.uploadFile was
\* called with, and what the selection was at that moment

\* the arguments the upload callback gives api.uploadFile besides the file path
UploadTarget_Current(captured) == <<currentProfileId, currentBucket, currentPrefix>>

\* const profileId, bucket, prefix: taken before runWithConcurrency, closed over by the callback
UploadTarget(captured) == <<captured.profileId, captured.bucket, captured.prefix>>

\* the condition of the outer while loop of runWithConcurrency
OuterWhile_QueueOnly(fr) == Len(fr.queue) > 0

OuterWhile(fr) == Len(fr.queue) > 0 \/ Len(fr.running) > 0

\* the condition of the inner while loop of runWithConcurrency
CanDispatch_OffByOne(runningLen, queueLen, concurrency) ==
    runningLen <= concurrency /\ queueLen > 0

CanDispatch(runningLen, queueLen, concurrency) ==
    runningLen < concurrency /\ queueLen > 0

\* the part of the upload callback before its await: mark running, invoke api.uploadFile
fnBegin_SkipsRunning(fr, i) ==
    [fr EXCEPT !.calls = [@ EXCEPT ![i] = @ + 1],
               !.targets = [@ EXCEPT ![i] = Some([target |-> fr.target,
                                                  selection |-> fr.selection])],
               !.inflight = @ \cup {i}]

fnBegin(fr, i) ==
    [fr EXCEPT !.tasks = updateTaskStatus(@, fr.taskIds[i], "running", Undefined),
               !.scheduled = RenderIfFound(fr.tasks, fr.taskIds[i], @),
               !.log = LogStatus(fr.tasks, @, fr.taskIds[i], "running"),
               !.calls = [@ EXCEPT ![i] = @ + 1],
               !.targets = [@ EXCEPT ![i] = Some([target |-> fr.target,
                                                  selection |-> fr.selection])],
               !.inflight = @ \cup {i}]

shift_TakesLast(queue) ==
    [item |-> queue[Len(queue)], rest |-> SubSeq(queue, 1, Len(queue) - 1)]

\* queue.shift(): the first element, and the queue without it
shift(queue) == [item |-> Head(queue), rest |-> Tail(queue)]

RECURSIVE InnerWhile(_)
\* while (running.length < concurrency && queue.length > 0) { shift, fn(item), push }
InnerWhile(fr) ==
    IF CanDispatch(Len(fr.running), Len(fr.queue), fr.concurrency)
    THEN LET i == shift(fr.queue).item
             started == fnBegin([fr EXCEPT !.queue = shift(@).rest], i)
         IN  InnerWhile([started EXCEPT !.running = Append(@, i)])
    ELSE fr

\* the catch branch of the upload callback
OnUploadRejected_Retry(fr, i, err) ==
    [fr EXCEPT !.tasks = updateTaskStatus(@, fr.taskIds[i], "failed", Some(String(err))),
               !.scheduled = RenderIfFound(fr.tasks, fr.taskIds[i], @),
               !.log = LogStatus(fr.tasks, @, fr.taskIds[i], "failed"),
               !.queue = Append(@, i)]

OnUploadRejected(fr, i, err) ==
    [fr EXCEPT !.tasks = updateTaskStatus(@, fr.taskIds[i], "failed", Some(String(err))),
               !.scheduled = RenderIfFound(fr.tasks, fr.taskIds[i], @),
               !.log = LogStatus(fr.tasks, @, fr.taskIds[i], "failed")]

OnUploadResolved(fr, i) ==
    [fr EXCEPT !.tasks = updateTaskStatus(@, fr.taskIds[i], "completed", Undefined),
               !.scheduled = RenderIfFound(fr.tasks, fr.taskIds[i], @),
               !.log = LogStatus(fr.tasks, @, fr.taskIds[i], "completed")]

\* the part of the upload callback after its await
fnEnd_Rethrows(fr, i, outcome) ==
    LET landed == [fr EXCEPT !.inflight = @ \ {i}, !.outcomes = [@ EXCEPT ![i] = Some(outcome)]]
    IN  IF outcome.ok THEN OnUploadResolved(landed, i)
        ELSE [OnUploadRejected(landed, i, outcome.err) EXCEPT !.queue = <<>>]

fnEnd(fr, i, outcome) ==
    LET landed == [fr EXCEPT !.inflight = @ \ {i}, !.outcomes = [@ EXCEPT ![i] = Some(outcome)]]
    IN  IF outcome.ok THEN OnUploadResolved(landed, i)
        ELSE OnUploadRejected(landed, i, outcome.err)

finallyCallback_NoSplice(running, i) == running

\* running.indexOf(promise); if (index > -1) running.splice(index, 1)
finallyCallback(running, i) ==
    IF \E k \in 1..Len(running) : running[k] = i
    THEN LET index == CHOOSE k \in 1..Len(running) :
                          running[k] = i /\ \A j \in 1..(k - 1) : running[j] # i
         IN  [k \in 1..(Len(running) - 1) |->
                  IF k < index THEN running[k] ELSE running[k + 1]]
    ELSE running

Frame_SharedRunning(b) ==
    [tasks |-> tasks, log |-> statusLog, scheduled |-> renderScheduled,
     calls |-> uploadCalls[b],
     outcomes |-> uploadOutcomes[b],
     taskIds |-> batch[b].taskIds, concurrency |-> batch[b].concurrency,
     queue |-> batch[b].queue,
     running |-> batch[b].running
                    \o batch[CHOOSE c \in BatchIds : c # b].running,
     inflight |-> batch[b].inflight,
     targets |-> batch[b].targets, target |-> UploadTarget(batch[b]),
     selection |-> <<currentProfileId, currentBucket, currentPrefix>>]

\* the frame an upload batch works on: the task list, the logs and the batch's locals
Frame(b) ==
    [tasks |-> tasks, log |-> statusLog, scheduled |-> renderScheduled,
     calls |-> uploadCalls[b],
     outcomes |-> uploadOutcomes[b],
     taskIds |-> batch[b].taskIds, concurrency |-> batch[b].concurrency,
     queue |-> batch[b].queue, running |-> batch[b].running,
     inflight |-> batch[b].inflight,
     targets |-> batch[b].targets, target |-> UploadTarget(batch[b]),
     selection |-> <<currentProfileId, currentBucket, currentPrefix>>]

\* write a frame back; the outer loop of runWithConcurrency ends when queue and
\* running are both empty, and uploadFilesWithTasks then calls loadObjects()
StoreFrame(b, fr, base) ==
    /\ tasks' = fr.tasks
    /\ statusLog' = fr.log
    /\ renderScheduled' = fr.scheduled
    /\ UNCHANGED lastRender
    /\ uploadCalls' = [uploadCalls EXCEPT ![b] = fr.calls]
    /\ uploadOutcomes' = [uploadOutcomes EXCEPT ![b] = fr.outcomes]
    /\ batch' = [batch EXCEPT ![b] =
           [base EXCEPT !.queue = fr.queue, !.running = fr.running,
                        !.inflight = fr.inflight, !.targets = fr.targets,
                        !.phase = IF OuterWhile(fr) THEN "run"
                                  ELSE IF Selected THEN "refresh" ELSE "done"]]
    /\ IF OuterWhile(fr) THEN UNCHANGED <<pending, requestsMade, isLoading>>
       ELSE loadObjects(FALSE, ByBatch(b), currentProfileId, currentBucket, currentPrefix,
                        searchPrefix, continuationToken)
    /\ UNCHANGED <<searchVars, syncVars, watchVars, viewMode, objects, continuationToken,
                   tokenHistory, hasMoreData, isLoadingMore, selectedKeys, errorScrollIndex>>

\* uploadFiles / uploadDroppedFiles with a non-empty list, then uploadFilesWithTasks
\* up to the first await of runWithConcurrency
uploadFilesWithTasks(b, filePaths, concurrency) ==
    /\ batch[b].phase \in {"idle", "done"}
    /\ taskIdCounter + Len(filePaths) <= MaxTaskId
    /\ IF ~Selected
       THEN NotSelected(TRUE)
       ELSE LET fileNames == [k \in 1..Len(filePaths) |-> BaseName(filePaths[k])]
                created == addTasksBatch(tasks, taskIdCounter, "upload", fileNames)
                base == [IdleBatch EXCEPT
                            !.filePaths = filePaths,
                            !.taskIds = [k \in 1..Len(filePaths) |-> created[k].id],
                            !.profileId = currentProfileId,
                            !.bucket = currentBucket,
                            !.prefix = currentPrefix,
                            !.concurrency = concurrency]
                fr == [tasks |-> created,
                       log |-> LogCreated(statusLog, taskIdCounter, Len(filePaths)),
                       scheduled |-> scheduleRender(renderScheduled),
                       calls |-> [k \in 1..Len(filePaths) |-> 0],
                       outcomes |-> [k \in 1..Len(filePaths) |-> Undefined],
                       taskIds |-> base.taskIds, concurrency |-> concurrency,
                       queue |-> [k \in 1..Len(filePaths) |-> k], running |-> <<>>,
                       inflight |-> {},
                       targets |-> [k \in 1..Len(filePaths) |-> Undefined],
                       target |-> UploadTarget(base),
                       selection |-> <<currentProfileId, currentBucket, currentPrefix>>]
            IN  /\ StoreFrame(b, InnerWhile(fr), base)
                /\ taskIdCounter' = taskIdCounter + Len(filePaths)
                /\ UNCHANGED <<messageVars, currentProfileId, currentBucket, currentPrefix, ops>>

\* api.uploadFile of item i settles: the callback finishes, its finally handler
\* runs, Promise.race resumes the outer loop and the inner loop dispatches again
UploadSettles(b, i, outcome) ==
    /\ batch[b].phase = "run"
    /\ i \in batch[b].inflight
    /\ LET ended == fnEnd(Frame(b), i, outcome)
           spliced == [ended EXCEPT !.running = finallyCallback(@, i)]
       IN  StoreFrame(b, InnerWhile(spliced), batch[b])
    /\ UNCHANGED <<messageVars, currentProfileId, currentBucket, currentPrefix, taskIdCounter, ops>>

\* the list request of the trailing loadObjects() settles; loadObjects catches a failure
UploadRefreshSettles(b, outcome) ==
    /\ batch[b].phase = "refresh"
    /\ batch' = [batch EXCEPT ![b].phase = "done"]
    /\ \E k \in DOMAIN pending : pending[k].by = ByBatch(b) /\ ListSettled(k, outcome)
    /\ UNCHANGED <<searchVars, syncVars, watchVars, tauriEvents, currentProfileId, currentBucket,
                   currentPrefix, tasks, taskIdCounter, ops, uploadCalls, uploadOutcomes,
                   statusLog, renderVars>>

\* the "clear completed" button: filter the list, then renderTasks() at once
ClearCompleted ==
    /\ tasks' = clearCompletedTasks(tasks)
    /\ lastRender' = renderTasks(clearCompletedTasks(tasks))
    /\ UNCHANGED <<renderScheduled, nonUiVars, messageVars, currentProfileId, currentBucket, currentPrefix, taskIdCounter,
                   batch, ops, uploadCalls, uploadOutcomes, statusLog>>

\* ------------------------------------------------------------------------
\* Single-task operations: deleteObject, deleteSelectedObjects, syncWithLocal,
\* startKeepSync
\* ------------------------------------------------------------------------
IdleOp == [kind |-> "none", taskId |-> 0, pc |-> "idle"]

SyncIds == {"s1"}

\* `${count} objects` and `${result.errors.length} errors`
CountLabel(n, noun) ==
    IF noun = "objects" THEN (IF n = 1 THEN "1 objects" ELSE "2 objects")
    ELSE (IF n = 1 THEN "1 errors" ELSE "2 errors")

\* const task = addTask(type, name); updateTaskStatus(task.id, "running")
StartSingleTask_StaysPending(ts, counter, type, fileName) ==
    addTask(ts, counter, type, fileName)

StartSingleTask(ts, counter, type, fileName) ==
    updateTaskStatus(addTask(ts, counter, type, fileName),
                     generateTaskId(counter), "running", Undefined)

\* a handler creates its task and invokes its api call
OpStart(o, kind, type, fileName) ==
    /\ ops[o].pc = "idle"
    /\ taskIdCounter < MaxTaskId
    /\ IF ~Selected
       THEN NotSelected(kind \in {"sync", "keepsync"})
       ELSE LET started == StartSingleTask(tasks, taskIdCounter, type, fileName)
                id == generateTaskId(taskIdCounter)
            IN  /\ tasks' = started
                /\ statusLog' =
                       IF StatusOf(started, id) = "running"
                       THEN LogStatus(started, LogCreated(statusLog, taskIdCounter, 1),
                                      id, "running")
                       ELSE LogCreated(statusLog, taskIdCounter, 1)
                /\ taskIdCounter' = taskIdCounter + 1
                /\ renderScheduled' = scheduleRender(renderScheduled)
                /\ UNCHANGED lastRender
                /\ ops' = [ops EXCEPT ![o] = [kind |-> kind, taskId |-> id, pc |-> "api"]]
                /\ UNCHANGED <<nonUiVars, messageVars, currentProfileId, currentBucket, currentPrefix,
                               batch, uploadCalls, uploadOutcomes>>

\* the handler's continuation shows its messages, gives its task a status and
\* either ends or awaits loadObjects()
OpFinish(o, status, error, refresh, messages) ==
    /\ errors' = ShowAll(errors, messages)
    /\ selectedKeys' = IF ops[o].kind = "deleteSelected" /\ refresh THEN clearSelection
                       ELSE selectedKeys
    /\ IF refresh
       THEN loadObjects(FALSE, ByOp(o), currentProfileId, currentBucket, currentPrefix,
                        searchPrefix, continuationToken)
       ELSE UNCHANGED <<pending, requestsMade, isLoading>>
    /\ tasks' = updateTaskStatus(tasks, ops[o].taskId, status, error)
    /\ statusLog' = LogStatus(tasks, statusLog, ops[o].taskId, status)
    /\ renderScheduled' = RenderIfFound(tasks, ops[o].taskId, renderScheduled)
    /\ UNCHANGED lastRender
    /\ ops' = [ops EXCEPT ![o].pc = IF refresh /\ Selected THEN "load" ELSE "idle"]
    /\ UNCHANGED <<searchVars, syncVars, watchVars, tauriEvents, currentProfileId, currentBucket,
                   currentPrefix, taskIdCounter, batch, uploadCalls, uploadOutcomes, viewMode,
                   objects, continuationToken, tokenHistory, hasMoreData, isLoadingMore,
                   errorScrollIndex>>

\* the confirm button runs the callback deleteObject(key) installed
deleteObject(o, key) == OpStart(o, "delete", "delete", BaseName(key))

\* api.deleteObject settles: completed and loadObjects(), or failed
DeleteSettles(o, outcome) ==
    /\ ops[o].pc = "api"
    /\ ops[o].kind = "delete"
    /\ IF outcome.ok THEN OpFinish(o, "completed", Undefined, TRUE, <<>>)
       ELSE OpFinish(o, "failed", Some(String(outcome.err)), FALSE, <<>>)

\* the confirm button runs the callback deleteSelectedObjects installed for count keys
deleteSelectedObjects(o, count) ==
    OpStart(o, "deleteSelected", "delete", <<CountLabel(count, "objects")>>)

\* `Failed to delete ${err.key}: ${err.message}` for the k-th entry of result.errors
DeleteErrorMessage(k) == <<"Failed to delete ", ToString(k), ": ", "E1">>

\* api.deleteObjects settles: resolved with nerrors per-key errors, or rejected
DeleteSelectedSettles(o, outcome) ==
    /\ ops[o].pc = "api"
    /\ ops[o].kind = "deleteSelected"
    /\ IF outcome.ok
       THEN IF outcome.nerrors > 0
            THEN OpFinish(o, "failed", Some(CountLabel(outcome.nerrors, "errors")), TRUE,
                          [k \in 1..outcome.nerrors |-> DeleteErrorMessage(k)])
            ELSE OpFinish(o, "completed", Undefined, TRUE, <<>>)
       ELSE OpFinish(o, "failed", Some(String(outcome.err)), FALSE, <<>>)

\* syncWithLocal after the folder dialog returned a folder
syncWithLocal(o, folder) == OpStart(o, "sync", "sync", FolderName(folder))

\* `Sync complete: ${result.uploaded} uploaded, ${result.downloaded} downloaded,
\* ${result.skipped} skipped`
SyncCompleteMessage(result) ==
    <<"Sync complete: ", ToString(result.uploaded), " uploaded, ",
      ToString(result.downloaded), " downloaded, ", ToString(result.skipped), " skipped">>

SyncSettles_AlwaysCompletes(o, outcome) ==
    /\ ops[o].pc = "api"
    /\ ops[o].kind = "sync"
    /\ OpFinish(o, "completed", Undefined, TRUE, <<>>)

\* api.syncFolder settles
SyncSettles(o, outcome) ==
    /\ ops[o].pc = "api"
    /\ ops[o].kind = "sync"
    /\ IF outcome.ok
       THEN OpFinish(o, "completed", Undefined, TRUE, <<SyncCompleteMessage(outcome.result)>>)
       ELSE OpFinish(o, "failed", Some(String(outcome.err)), FALSE, <<>>)

\* startKeepSync after the folder dialog returned a folder
startKeepSync(o, folder) == OpStart(o, "keepsync", "keepsync", FolderName(folder))

SetSyncId_MarksCompleted(ts, taskId, syncId) ==
    [k \in 1..Len(ts) |->
        IF ts[k].id = taskId
        THEN [ts[k] EXCEPT !.syncId = Some(syncId), !.status = "completed"]
        ELSE ts[k]]

\* task.syncId = syncId, on the task object startKeepSync created
SetSyncId(ts, taskId, syncId) ==
    [k \in 1..Len(ts) |->
        IF ts[k].id = taskId THEN [ts[k] EXCEPT !.syncId = Some(syncId)] ELSE ts[k]]

\* api.startKeepSync settles: the task gets its session id, or fails
KeepSyncSettles(o, outcome) ==
    /\ ops[o].pc = "api"
    /\ ops[o].kind = "keepsync"
    /\ IF outcome.ok
       THEN /\ tasks' = SetSyncId(tasks, ops[o].taskId, outcome.syncId)
            /\ ops' = [ops EXCEPT ![o].pc = "idle"]
            /\ errors' = showError(errors, <<"KeepSync started: ", outcome.syncId>>)
            /\ UNCHANGED <<nonUiVars, tauriEvents, currentProfileId, currentBucket, currentPrefix, taskIdCounter,
                           batch, uploadCalls, uploadOutcomes, statusLog, renderVars>>
       ELSE OpFinish(o, "failed", Some(String(outcome.err)), FALSE, <<>>)

\* the list request of the handler's trailing loadObjects() settles
OpRefreshSettles(o, outcome) ==
    /\ ops[o].pc = "load"
    /\ ops' = [ops EXCEPT ![o].pc = "idle"]
    /\ \E k \in DOMAIN pending : pending[k].by = ByOp(o) /\ ListSettled(k, outcome)
    /\ UNCHANGED <<searchVars, syncVars, watchVars, tauriEvents, currentProfileId, currentBucket,
                   currentPrefix, tasks, taskIdCounter, batch, uploadCalls, uploadOutcomes,
                   statusLog, renderVars>>

\* the single-task operations are tried with one rejection value
OpErrs == {"E1"}

Fulfilled == [ok |-> TRUE, err |-> ""]

OpOutcomes == {Fulfilled} \cup {[ok |-> FALSE, err |-> e] : e \in OpErrs}

ApiOutcomes == {[ok |-> TRUE, err |-> ""]} \cup {[ok |-> FALSE, err |-> e] : e \in Errs}

\* api.syncFolder resolves with a SyncResult or rejects
SyncFolderOutcomes ==
    {[ok |-> TRUE, err |-> "",
      result |-> [uploaded |-> 1, downloaded |-> 0, deleted |-> 0, skipped |-> 1]]}
        \cup {[ok |-> FALSE, err |-> e] : e \in OpErrs}

DeleteObjectsOutcomes ==
    {[ok |-> TRUE, nerrors |-> n, err |-> ""] : n \in 0..1}
        \cup {[ok |-> FALSE, nerrors |-> 0, err |-> e] : e \in OpErrs}

KeepSyncOutcomes ==
    {[ok |-> TRUE, syncId |-> s, err |-> ""] : s \in SyncIds}
        \cup {[ok |-> FALSE, syncId |-> "", err |-> e] : e \in OpErrs}

\* the page has loaded: no task, no operation under way
\* let objects = [], continuationToken = null, tokenHistory = [], viewMode = "list", ...
BrowserInit ==
    /\ viewMode = "list"
    /\ objects = Undefined
    /\ continuationToken = Undefined
    /\ tokenHistory = <<>>
    /\ hasMoreData = FALSE
    /\ isLoading = FALSE
    /\ isLoadingMore = FALSE
    /\ selectedKeys = {}
    /\ pending = <<>>
    /\ requestsMade = 0
    /\ errorScrollIndex = 0

TasksInit ==
    /\ currentProfileId \in {Undefined, Some("p1")}
    /\ currentBucket \in IF Truthy(currentProfileId) THEN {Undefined, Some("bk1")}
                         ELSE {Undefined}
    /\ currentPrefix = ""
    /\ tasks = <<>>
    /\ taskIdCounter = 0
    /\ batch = [b \in BatchIds |-> IdleBatch]
    /\ ops = [o \in OpIds |-> IdleOp]
    /\ uploadCalls = [b \in BatchIds |-> <<>>]
    /\ uploadOutcomes = [b \in BatchIds |-> <<>>]
    /\ statusLog = <<>>
    /\ renderScheduled = FALSE
    /\ lastRender = <<>>
    /\ tauriEvents = 0
    /\ BrowserInit

UiInit == TasksInit /\ errors = <<>>

\* ------------------------------------------------------------------------
\* Events of the backend: setupTauriEventListeners
\* ------------------------------------------------------------------------
\* the sync_id values the payloads carry
EventSyncIds == {"s1", "s2"}

SyncProgressPayloads ==
    {[sync_id |-> i, current |-> 1, total |-> 1, current_file |-> "a.txt"] : i \in EventSyncIds}

SyncCompletedPayloads ==
    {[sync_id |-> i, files_uploaded |-> 1, files_downloaded |-> 0] : i \in EventSyncIds}

SyncErrorPayloads == {[sync_id |-> i, error |-> "E1"] : i \in EventSyncIds}

\* the message each listener passes to showError
EventMessage(kind, payload) ==
    CASE kind = "sync-progress" -> <<"Syncing: ", payload.current_file>>
      [] kind = "sync-completed" ->
            <<"Sync completed: ", ToString(payload.files_uploaded), " uploaded, ",
              ToString(payload.files_downloaded), " downloaded">>
      [] OTHER -> <<"Sync error: ", payload.error>>

\* a listener runs: showError(message) and nothing else
TauriEvent(kind, payload) ==
    /\ tauriEvents < MaxTauriEvents
    /\ tauriEvents' = tauriEvents + 1
    /\ errors' = showError(errors, EventMessage(kind, payload))
    /\ UNCHANGED <<nonUiVars, currentProfileId, currentBucket, currentPrefix,
                   tasks, taskIdCounter, batch, ops, uploadCalls, uploadOutcomes,
                   statusLog, renderVars>>

TauriNext ==
    \/ \E p \in SyncProgressPayloads : TauriEvent("sync-progress", p)
    \/ \E p \in SyncCompletedPayloads : TauriEvent("sync-completed", p)
    \/ \E p \in SyncErrorPayloads : TauriEvent("sync-error", p)

\* number of messages the footer shows at once: errors.slice(errorScrollIndex, errorScrollIndex + 5)
VISIBLE_ERRORS == 5

Max(a, b) == IF a >= b THEN a ELSE b

Min(a, b) == IF a <= b THEN a ELSE b

ScrollTo_NoUpperClamp(len, index, direction) == Max(0, index + direction)

\* Math.max(0, Math.min(errors.length - 5, errorScrollIndex + direction))
ScrollTo(len, index, direction) == Max(0, Min(len - VISIBLE_ERRORS, index + direction))

\* ArrowUp / k and ArrowDown / j with the footer expanded
scrollErrors(direction) ==
    /\ errorScrollIndex' = ScrollTo(Len(errors), errorScrollIndex, direction)
    /\ UNCHANGED <<uiVars, searchVars, syncVars, watchVars, listVars>>

\* Escape: errors = []; errorScrollIndex = 0
clearErrors ==
    /\ errors' = <<>>
    /\ errorScrollIndex' = 0
    /\ UNCHANGED <<searchVars, syncVars, watchVars, listVars, tauriEvents, currentProfileId, currentBucket, currentPrefix,
                   tasks, taskIdCounter, batch, ops, uploadCalls, uploadOutcomes, statusLog,
                   renderVars>>

\* the footer: messages arriving, scrolling, clearing
ErrorsNext ==
    \/ TauriNext
    \/ \E direction \in {-1, 1} : scrollErrors(direction)
    \/ clearErrors

\* message lists the page can have built up before: none, one short of a full
\* window, one short of the cap
ScrollableMessages ==
    {[k \in 1..n |-> <<"earlier">>] : n \in {0, VISIBLE_ERRORS - 1, MAX_ERRORS - 1}}

\* message lists the page can have built up: none, or so many that the next
\* message fills the list and the one after pushes the oldest out
EarlierMessages == {[k \in 1..n |-> <<"earlier">>] : n \in {0, MAX_ERRORS - 1}}

\* the steps of upload batches run with one of the given limits, the uploads
\* settling in one of the given ways
UploadSteps(bs, limits, outcomes, refreshes) ==
    \/ \E b \in bs, fps \in FileLists, n \in limits : uploadFilesWithTasks(b, fps, n)
    \/ \E b \in bs, i \in 1..MaxFiles, r \in outcomes : UploadSettles(b, i, r)
    \/ \E b \in bs, r \in refreshes : UploadRefreshSettles(b, r)
    \/ ClearCompleted

\* runWithConcurrency under small limits and the program's own
UploadNext == UploadSteps(OneBatch, Limits, ApiOutcomes, OpOutcomes)

\* the one-shot sync and the keep-sync start
SyncOpsSteps(refreshes) ==
    \/ \E o \in OpIds, folder \in FilePaths : syncWithLocal(o, folder)
    \/ \E o \in OpIds, r \in SyncFolderOutcomes : SyncSettles(o, r)
    \/ \E o \in OpIds, folder \in FilePaths : startKeepSync(o, folder)
    \/ \E o \in OpIds, r \in KeepSyncOutcomes : KeepSyncSettles(o, r)
    \/ \E o \in OpIds, r \in refreshes : OpRefreshSettles(o, r)

SyncOpsNext == SyncOpsSteps(OpOutcomes)

OpsSteps(refreshes) ==
    \/ \E o \in OpIds, key \in FilePaths : deleteObject(o, key)
    \/ \E o \in OpIds, r \in OpOutcomes : DeleteSettles(o, r)
    \/ \E o \in OpIds, count \in 1..2 : deleteSelectedObjects(o, count)
    \/ \E o \in OpIds, r \in DeleteObjectsOutcomes : DeleteSelectedSettles(o, r)
    \/ SyncOpsSteps(refreshes)

OpsNext == OpsSteps(OpOutcomes)

\* the delete button of a row on display, confirmed in the dialog
DeleteRow(o, key) ==
    /\ key \in DisplayedKeys
    /\ taskIdCounter < MaxDeletes
    /\ deleteObject(o, key)

\* the "delete selected" button with the rows now ticked, confirmed in the dialog
DeleteTicked(o) ==
    /\ selectedKeys # {}
    /\ taskIdCounter < MaxDeletes
    /\ deleteSelectedObjects(o, Cardinality(selectedKeys))

\* ------------------------------------------------------------------------
\* Search box: handleSearchInput, its debounce timer, clearSearch
\* ------------------------------------------------------------------------
\* the delay handleSearchInput passes to window.setTimeout
DEBOUNCE_MS == 300

SearchValues == {"", "a", "ab"}

\* the timers whose delay has elapsed; a due timer's callback is the next job to run
Due == {t \in timers : t.due <= now}

\* if (searchTimeout) { clearTimeout(searchTimeout) }
CancelPending_Never(armed, handle) == armed

CancelPending(armed, handle) ==
    IF handle # Undefined /\ handle[1] # 0
    THEN {t \in armed : t.id # handle[1]}
    ELSE armed

\* loadObjects() is called; it issues a list request only with a profile and bucket
LoadCall(by) ==
    [by |-> by, searchPrefix |-> searchPrefix', at |-> now, listed |-> Selected]

\* an input event on the search box, the box now holding value
handleSearchInput(value) ==
    /\ Len(inputEvents) < MaxInputs
    /\ Due = {}
    /\ searchInputValue' = value
    /\ timers' = CancelPending(timers, searchTimeout)
                     \cup {[id |-> nextTimerId, due |-> now + DEBOUNCE_MS, value |-> value]}
    /\ searchTimeout' = Some(nextTimerId)
    /\ nextTimerId' = nextTimerId + 1
    /\ inputEvents' = Append(inputEvents, [value |-> value, at |-> now])
    /\ UNCHANGED <<uiVars, browserVars, syncVars, watchVars, now, searchPrefix, loadCalls>>

\* the callback handleSearchInput gave to setTimeout
SearchTimerFires(t) ==
    /\ t \in Due
    /\ timers' = timers \ {t}
    /\ searchPrefix' = t.value
    /\ continuationToken' = Undefined
    /\ tokenHistory' = <<>>
    /\ loadCalls' = Append(loadCalls, LoadCall("debounce"))
    /\ loadObjects(FALSE, ByBrowser, currentProfileId, currentBucket, currentPrefix, t.value,
                   Undefined)
    /\ UNCHANGED <<uiVars, syncVars, watchVars, now, searchInputValue, searchTimeout, nextTimerId,
                   inputEvents, viewMode, objects, hasMoreData, isLoadingMore, selectedKeys,
                   errorScrollIndex>>

\* a click on the clear button, which is shown while the box is not empty
clearSearch ==
    /\ Due = {}
    /\ searchInputValue # ""
    /\ searchInputValue' = ""
    /\ searchPrefix' = ""
    /\ continuationToken' = Undefined
    /\ tokenHistory' = <<>>
    /\ loadCalls' = Append(loadCalls, LoadCall("clear"))
    /\ loadObjects(FALSE, ByBrowser, currentProfileId, currentBucket, currentPrefix, "",
                   Undefined)
    /\ UNCHANGED <<uiVars, syncVars, watchVars, now, searchTimeout, timers, nextTimerId,
                   inputEvents, viewMode, objects, hasMoreData, isLoadingMore, selectedKeys,
                   errorScrollIndex>>

\* the earliest moment after the present at which something is due, at most
\* TickMs from now
NextInstant ==
    LET soon == {t.due : t \in {u \in timers : u.due <= now + TickMs}}
    IN  IF soon = {} THEN now + TickMs
        ELSE CHOOSE d \in soon : \A e \in soon : d <= e

\* time passes, but not past the moment a timer is due
Tick ==
    /\ Due = {}
    /\ NextInstant <= MaxTime
    /\ now' = NextInstant
    /\ UNCHANGED <<uiVars, browserVars, syncVars, watchVars, searchInputValue, searchPrefix, searchTimeout, timers,
                   nextTimerId, loadCalls, inputEvents>>

SearchInit ==
    /\ now = 0
    /\ searchInputValue = ""
    /\ searchPrefix = ""
    /\ searchTimeout = Undefined
    /\ timers = {}
    /\ nextTimerId = 1
    /\ loadCalls = <<>>
    /\ inputEvents = <<>>

SearchNext ==
    \/ \E v \in SearchValues : handleSearchInput(v)
    \/ \E t \in timers : SearchTimerFires(t)
    \/ clearSearch
    \/ Tick

\* ------------------------------------------------------------------------
\* Sync engine (sync_folder): diff planner and task scheduler
\* ------------------------------------------------------------------------
\* relative paths, in the order the planner visits them
SyncPaths == <<"a.txt", "b.txt">>

SyncPathSet == {SyncPaths[i] : i \in 1..Len(SyncPaths)}

Fingerprints == {"X", "Y"}

Absent == "-"

SideMappings == [SyncPathSet -> Fingerprints \cup {Absent}]

\* types.ts: SyncDirection
SyncDirections == {"local_to_remote", "remote_to_local"}

SyncErrs == {"E1"}

\* concurrency limits of the scheduler; a limit above the number of paths
\* never binds
SyncLimits == 1..Len(SyncPaths)

TransferKinds == {"Upload", "Download"}

DeleteKinds == {"DeleteLocal", "DeleteRemote"}

Transfer(direction) == IF direction = "local_to_remote" THEN "Upload" ELSE "Download"

DeleteOnDestination(direction) ==
    IF direction = "local_to_remote" THEN "DeleteRemote" ELSE "DeleteLocal"

\* the operations planned for one relative path, src and dst being the
\* fingerprints on the source and destination side
PlanPath_DeletesOrphans(path, direction, deleteOrphans, src, dst) ==
    IF src = Absent /\ dst = Absent THEN <<>>
    ELSE IF dst = Absent THEN <<[kind |-> Transfer(direction), path |-> path]>>
    ELSE IF src = Absent THEN <<[kind |-> DeleteOnDestination(direction), path |-> path]>>
    ELSE IF src = dst THEN <<[kind |-> "Skip", path |-> path]>>
    ELSE <<[kind |-> Transfer(direction), path |-> path]>>

PlanPath_IgnoresFingerprint(path, direction, deleteOrphans, src, dst) ==
    IF src = Absent /\ dst = Absent THEN <<>>
    ELSE IF src = Absent
    THEN IF deleteOrphans
         THEN <<[kind |-> DeleteOnDestination(direction), path |-> path]>>
         ELSE <<[kind |-> "Skip", path |-> path]>>
    ELSE <<[kind |-> Transfer(direction), path |-> path]>>

PlanPath(path, direction, deleteOrphans, src, dst) ==
    IF src = Absent /\ dst = Absent THEN <<>>
    ELSE IF dst = Absent THEN <<[kind |-> Transfer(direction), path |-> path]>>
    ELSE IF src = Absent
    THEN IF deleteOrphans
         THEN <<[kind |-> DeleteOnDestination(direction), path |-> path]>>
         ELSE <<[kind |-> "Skip", path |-> path]>>
    ELSE IF src = dst THEN <<[kind |-> "Skip", path |-> path]>>
    ELSE <<[kind |-> Transfer(direction), path |-> path]>>

RECURSIVE PlanFrom(_, _, _, _, _)
\* the plan for the paths from the i-th on
PlanFrom(i, direction, deleteOrphans, l, r) ==
    IF i > Len(SyncPaths) THEN <<>>
    ELSE LET p == SyncPaths[i]
             src == IF direction = "local_to_remote" THEN l[p] ELSE r[p]
             dst == IF direction = "local_to_remote" THEN r[p] ELSE l[p]
         IN  PlanPath(p, direction, deleteOrphans, src, dst)
                \o PlanFrom(i + 1, direction, deleteOrphans, l, r)

\* Diff Planner: two side mappings and a direction give the sequence of operations
Plan(direction, deleteOrphans, l, r) == PlanFrom(1, direction, deleteOrphans, l, r)

ZeroResult == [uploaded |-> 0, downloaded |-> 0, deleted |-> 0, skipped |-> 0]

IdleSyncBatch ==
    [phase |-> "idle", direction |-> "local_to_remote", deleteOrphans |-> FALSE,
     limit |-> 1, snapLocal |-> [p \in SyncPathSet |-> Absent],
     snapRemote |-> [p \in SyncPathSet |-> Absent], tasks |-> <<>>,
     result |-> ZeroResult, prev |-> Undefined, repeat |-> FALSE, error |-> ""]

SyncTaskIxs(b, kinds, statuses) ==
    {i \in 1..Len(b.tasks) : b.tasks[i].kind \in kinds /\ b.tasks[i].status \in statuses}

SyncRunning(b) == SyncTaskIxs(b, TransferKinds \cup DeleteKinds, {"running"})

SyncFailed(b) == SyncTaskIxs(b, TransferKinds \cup DeleteKinds, {"failed"})

AllTerminal(tks) == \A i \in 1..Len(tks) : tks[i].status \in TerminalStatus

\* every transfer of the batch has succeeded or failed
TransfersOver(b) == SyncTaskIxs(b, TransferKinds, {"pending", "running"}) = {}

\* the scheduler may dispatch task i: a free slot, and deletions wait for the transfers
MayDispatch_DeletesEarly(b, i) ==
    /\ b.tasks[i].status = "pending"
    /\ Cardinality(SyncRunning(b)) < b.limit

MayDispatch(b, i) ==
    /\ b.tasks[i].status = "pending"
    /\ Cardinality(SyncRunning(b)) < b.limit
    /\ b.tasks[i].kind \in DeleteKinds => TransfersOver(b)

\* the counter of the result a finished operation adds to
Counted(result, kind) ==
    CASE kind = "Upload" -> [result EXCEPT !.uploaded = @ + 1]
      [] kind = "Download" -> [result EXCEPT !.downloaded = @ + 1]
      [] kind \in DeleteKinds -> [result EXCEPT !.deleted = @ + 1]
      [] OTHER -> [result EXCEPT !.skipped = @ + 1]

RECURSIVE CountSkips(_, _)
CountSkips(plan, i) ==
    IF i > Len(plan) THEN ZeroResult
    ELSE IF plan[i].kind = "Skip" THEN Counted(CountSkips(plan, i + 1), "Skip")
    ELSE CountSkips(plan, i + 1)

\* sync_once(profile, bucket, prefix, local_path, direction): enumerate both
\* sides, plan, and hand the plan to the scheduler
\* the enumeration of a missing or unreadable local root fails with IoError:
\* the batch is aborted before anything is planned
EnumerationFails_PlansAnyway(root) == FALSE

EnumerationFails(root) == root = "missing"

\* one batch begins: enumerate both sides, plan, and hand the plan to the scheduler
BeginBatch(direction, deleteOrphans, limit) ==
    /\ syncBatch.phase \in {"idle", "done", "failed"}
    /\ syncRuns < MaxRuns
    /\ LET plan == IF EnumerationFails(localRoot) THEN <<>>
                   ELSE Plan(direction, deleteOrphans, local, remote)
           tks == [i \in 1..Len(plan) |->
                     [kind |-> plan[i].kind, path |-> plan[i].path,
                      status |-> IF plan[i].kind = "Skip" THEN "completed" ELSE "pending",
                      reason |-> Undefined]]
       IN  syncBatch' =
             [phase |-> IF EnumerationFails(localRoot) THEN "failed"
                        ELSE IF AllTerminal(tks) THEN "done" ELSE "running",
              direction |-> direction, deleteOrphans |-> deleteOrphans, limit |-> limit,
              snapLocal |-> local, snapRemote |-> remote, tasks |-> tks,
              result |-> CountSkips(plan, 1),
              prev |-> IF syncBatch.phase = "done"
                       THEN Some([failed |-> Cardinality(SyncFailed(syncBatch)),
                                  result |-> syncBatch.result])
                       ELSE Undefined,
              repeat |-> /\ syncBatch.phase = "done"
                         /\ ~changedSince
                         /\ syncBatch.direction = direction
                         /\ syncBatch.deleteOrphans = deleteOrphans,
              error |-> IF EnumerationFails(localRoot) THEN "IoError" ELSE ""]
    /\ syncRuns' = syncRuns + 1
    /\ changedSince' = FALSE
    /\ UNCHANGED <<browserVars, searchVars, watchVars, local, remote, localRoot>>

sync_once(direction, deleteOrphans, limit) ==
    /\ BeginBatch(direction, deleteOrphans, limit)
    /\ UNCHANGED <<uiVars, syncCall>>

\* the scheduler starts operation i of the batch
SyncDispatch(i) ==
    /\ syncBatch.phase = "running"
    /\ i \in 1..Len(syncBatch.tasks)
    /\ MayDispatch(syncBatch, i)
    /\ syncBatch' = [syncBatch EXCEPT !.tasks[i].status = "running"]
    /\ UNCHANGED <<uiVars, browserVars, searchVars, watchVars, local, remote, syncRuns, changedSince,
                   localRoot, syncCall>>

\* the primitive of operation i returns: ok, or the reason it failed
SyncSettle(i, outcome) ==
    /\ syncBatch.phase = "running"
    /\ i \in SyncRunning(syncBatch)
    /\ LET t == syncBatch.tasks[i]
           ok == outcome = Undefined
           tks == [syncBatch.tasks EXCEPT ![i].status = IF ok THEN "completed" ELSE "failed",
                                          ![i].reason = outcome]
       IN  /\ syncBatch' =
                 [syncBatch EXCEPT !.tasks = tks,
                                   !.result = IF ok THEN Counted(@, t.kind) ELSE @,
                                   !.phase = IF AllTerminal(tks) THEN "done" ELSE "running"]
           /\ remote' = IF ~ok THEN remote
                         ELSE IF t.kind = "Upload" THEN [remote EXCEPT ![t.path] = local[t.path]]
                         ELSE IF t.kind = "DeleteRemote" THEN [remote EXCEPT ![t.path] = Absent]
                         ELSE remote
           /\ local' = IF ~ok THEN local
                        ELSE IF t.kind = "Download" THEN [local EXCEPT ![t.path] = remote[t.path]]
                        ELSE IF t.kind = "DeleteLocal" THEN [local EXCEPT ![t.path] = Absent]
                        ELSE local
    /\ UNCHANGED <<uiVars, browserVars, searchVars, watchVars, syncRuns, changedSince, localRoot, syncCall>>

\* a file or an object is written or removed from outside, between two batches
ExternalChange(side, path, fp) ==
    /\ syncBatch.phase = "done"
    /\ syncRuns < MaxRuns
    /\ ~changedSince
    /\ IF side = "local"
       THEN local[path] # fp /\ local' = [local EXCEPT ![path] = fp] /\ remote' = remote
       ELSE remote[path] # fp /\ remote' = [remote EXCEPT ![path] = fp] /\ local' = local
    /\ changedSince' = TRUE
    /\ UNCHANGED <<uiVars, browserVars, searchVars, watchVars, syncBatch, syncRuns, localRoot, syncCall>>

\* no batch has run; the two sides hold anything
SyncInit ==
    /\ local \in SideMappings
    /\ remote \in SideMappings
    /\ syncBatch = IdleSyncBatch
    /\ syncRuns = 0
    /\ changedSince = FALSE
    /\ localRoot = "directory"
    /\ syncCall = 0

\* the sync engine is not used: both sides empty
SyncIdle ==
    /\ local = [p \in SyncPathSet |-> Absent]
    /\ remote = [p \in SyncPathSet |-> Absent]
    /\ syncBatch = IdleSyncBatch
    /\ syncRuns = 0
    /\ changedSince = FALSE
    /\ localRoot = "directory"
    /\ syncCall = 0

SyncNext ==
    \/ \E d \in SyncDirections, o \in BOOLEAN, n \in SyncLimits : sync_once(d, o, n)
    \/ \E i \in 1..Len(SyncPaths) : SyncDispatch(i)
    \/ \E i \in 1..Len(SyncPaths), e \in {Undefined} \cup {Some(x) : x \in SyncErrs} :
            SyncSettle(i, e)
    \/ \E side \in {"local", "remote"}, p \in SyncPathSet, fp \in Fingerprints \cup {Absent} :
            ExternalChange(side, p, fp)

\* the sync_folder command behind api.syncFolder: one batch, local to remote,
\* for the task of operation o
sync_folder(o, deleteOrphans, limit) ==
    /\ ops[o].pc = "api"
    /\ ops[o].kind = "sync"
    /\ syncCall # ops[o].taskId
    /\ BeginBatch("local_to_remote", deleteOrphans, limit)
    /\ syncCall' = ops[o].taskId
    /\ UNCHANGED uiVars

\* what the command answers: the SyncResult of the batch, or the enumeration error
SyncFolderOutcome(b) ==
    IF b.phase = "failed" THEN [ok |-> FALSE, err |-> b.error]
    ELSE [ok |-> TRUE, err |-> "", result |-> b.result]

\* the batch is over and the promise of api.syncFolder settles
SyncFolderReturns(o) ==
    /\ syncCall = ops[o].taskId
    /\ syncBatch.phase \in {"done", "failed"}
    /\ SyncSettles(o, SyncFolderOutcome(syncBatch))

\* the local root is a directory or is missing; the two sides hold anything
SyncUiInit ==
    /\ local \in SideMappings
    /\ remote \in SideMappings
    /\ syncBatch = IdleSyncBatch
    /\ syncRuns = 0
    /\ changedSince = FALSE
    /\ localRoot \in {"directory", "missing"}
    /\ syncCall = 0

\* one-shot syncs from the page through the sync engine
SyncUiNext ==
    \/ \E o \in OpIds, folder \in FilePaths : syncWithLocal(o, folder)
    \/ \E o \in OpIds, d \in BOOLEAN, n \in SyncLimits : sync_folder(o, d, n)
    \/ \E i \in 1..Len(SyncPaths) : SyncDispatch(i)
    \/ \E i \in 1..Len(SyncPaths), e \in {Undefined} \cup {Some(x) : x \in SyncErrs} :
            SyncSettle(i, e)
    \/ \E o \in OpIds : SyncFolderReturns(o)
    \/ \E o \in OpIds, r \in OpOutcomes : OpRefreshSettles(o, r)

\* ------------------------------------------------------------------------
\* Watch session (start_keep_sync, stop_keep_sync)
\* ------------------------------------------------------------------------
\* a trigger starts a reconciliation at once only when none is running
StartsNow_Always(running) == TRUE

StartsNow(running) == running = 0

\* a trigger arriving mid-reconciliation is queued as "one more run requested"
RequestOneMore(queued) == 1

\* start_keep_sync: subscribe to the file-system events under the local root
start_keep_sync(subscribed) ==
    /\ watchState = "created"
    /\ watchState' = IF subscribed THEN "watching" ELSE "stopped"
    /\ UNCHANGED <<uiVars, browserVars, searchVars, syncVars, debounceArmed, inFlight, queuedRuns,
                   fsEvents, runsStarted, watchEvents, midRunTriggers>>

\* a create / modify / delete / rename event arrives and opens or extends the
\* debounce window
FsEvent ==
    /\ watchState = "watching"
    /\ fsEvents < MaxFsEvents
    /\ fsEvents' = fsEvents + 1
    /\ debounceArmed' = TRUE
    /\ UNCHANGED <<uiVars, browserVars, searchVars, syncVars, watchState, inFlight, queuedRuns,
                   runsStarted, watchEvents, midRunTriggers>>

\* the debounce window closes: the coalesced events make one trigger
DebounceElapses ==
    /\ watchState = "watching"
    /\ debounceArmed
    /\ debounceArmed' = FALSE
    /\ IF StartsNow(inFlight)
       THEN /\ inFlight' = inFlight + 1
            /\ runsStarted' = runsStarted + 1
            /\ UNCHANGED <<queuedRuns, midRunTriggers>>
       ELSE /\ queuedRuns' = RequestOneMore(queuedRuns)
            /\ midRunTriggers' = midRunTriggers + 1
            /\ UNCHANGED <<inFlight, runsStarted>>
    /\ UNCHANGED <<uiVars, browserVars, searchVars, syncVars, watchState, fsEvents, watchEvents>>

\* a reconciliation ends, with a result or a failure: its terminal event is
\* emitted, the session stays watching, and a requested run starts
ReconcileEnds(failed) ==
    /\ inFlight > 0
    /\ watchEvents' = Append(watchEvents, IF failed THEN "error" ELSE "completed")
    /\ midRunTriggers' = 0
    /\ IF watchState = "watching" /\ queuedRuns > 0
       THEN /\ queuedRuns' = 0
            /\ runsStarted' = runsStarted + 1
            /\ UNCHANGED <<inFlight, watchState>>
       ELSE /\ inFlight' = inFlight - 1
            /\ watchState' = IF watchState = "stopping" /\ inFlight = 1
                              THEN "stopped" ELSE watchState
            /\ UNCHANGED <<queuedRuns, runsStarted>>
    /\ UNCHANGED <<uiVars, browserVars, searchVars, syncVars, debounceArmed, fsEvents>>

\* stop_keep_sync: unsubscribe; a reconciliation in flight is left to finish
stop_keep_sync ==
    /\ watchState = "watching"
    /\ watchState' = IF inFlight > 0 THEN "stopping" ELSE "stopped"
    /\ debounceArmed' = FALSE
    /\ queuedRuns' = 0
    /\ UNCHANGED <<uiVars, browserVars, searchVars, syncVars, inFlight, fsEvents, runsStarted,
                   watchEvents, midRunTriggers>>

WatchInit ==
    /\ watchState = "created"
    /\ debounceArmed = FALSE
    /\ inFlight = 0
    /\ queuedRuns = 0
    /\ fsEvents = 0
    /\ runsStarted = 0
    /\ watchEvents = <<>>
    /\ midRunTriggers = 0

WatchNext ==
    \/ \E subscribed \in BOOLEAN : start_keep_sync(subscribed)
    \/ FsEvent
    \/ DebounceElapses
    \/ \E failed \in BOOLEAN : ReconcileEnds(failed)
    \/ stop_keep_sync

\* ------------------------------------------------------------------------
\* Specifications
\* ------------------------------------------------------------------------
\* the state after the page has loaded: no task, no timer, no batch, no session
Init == UiInit /\ SearchInit /\ SyncIdle /\ WatchInit

\* every kind of task: upload batches as uploadFilesWithTasks runs them, with
\* MAX_CONCURRENT_UPLOADS, and the single-task operations
\* uploads and single-task operations together, every loadObjects() succeeding
\* (its failure only shows a message: SpecUpload and SpecEvents have it)
Next ==
    UploadSteps(OneBatch, {MAX_CONCURRENT_UPLOADS}, OpOutcomes, {Fulfilled}) \/ OpsSteps({Fulfilled})

Spec == Init /\ [][Next]_vars

\* upload batches alone
SpecUpload == Init /\ [][UploadNext]_vars

\* an upload in flight settles
UploadSettling ==
    \E b \in OneBatch, i \in 1..MaxFiles, r \in OpOutcomes : UploadSettles(b, i, r)

\* one upload batch under small limits and the program's own, with one rejection
\* value, its refresh answered, and the task list left alone meanwhile
FairNext ==
    \/ \E b \in OneBatch, fps \in FileLists, n \in Limits : uploadFilesWithTasks(b, fps, n)
    \/ \E b \in OneBatch, i \in 1..MaxFiles, r \in OpOutcomes : UploadSettles(b, i, r)
    \/ \E b \in OneBatch : UploadRefreshSettles(b, Fulfilled)

\* upload batches whose dispatched uploads all settle in the end
SpecUploadFair == Init /\ [][FairNext]_vars /\ WF_vars(UploadSettling)

\* two invocations of uploadFilesWithTasks under way at once, under small limits,
\* the task list left alone meanwhile
BatchesNext ==
    \/ \E b \in BatchIds, fps \in FileLists, n \in Limits : uploadFilesWithTasks(b, fps, n)
    \/ \E b \in BatchIds, i \in 1..MaxFiles, r \in OpOutcomes : UploadSettles(b, i, r)
    \/ \E b \in BatchIds : UploadRefreshSettles(b, Fulfilled)

SpecBatches == Init /\ [][BatchesNext]_vars

\* the search box and the clock
SpecSearch == Init /\ [][SearchNext]_vars

\* every kind of task, and the animation frames that render the task panel
RenderNext ==
    UploadSteps(OneBatch, {MAX_CONCURRENT_UPLOADS}, OpOutcomes, OpOutcomes) \/ AnimationFrame

SpecRender == Init /\ [][RenderNext]_vars

\* a profile and a bucket selected, and messages shown earlier
InitEvents ==
    TasksInit /\ Selected /\ errors \in EarlierMessages /\ SearchInit /\ SyncIdle /\ WatchInit

\* the sync operations and the events of the backend
EventsNext == SyncOpsNext \/ TauriNext

SpecEvents == InitEvents /\ [][EventsNext]_vars

\* a profile and a bucket selected, and the two sides holding anything
InitSync == UiInit /\ Selected /\ SearchInit /\ SyncInit /\ WatchInit

\* the sync engine
SpecSync == InitSync /\ [][SyncNext]_vars

\* a profile selected and no bucket yet
InitBrowse == Init /\ Truthy(currentProfileId) /\ ~Truthy(currentBucket)

\* the object browser: the user's clicks, taken while the page is not marked as
\* loading, the grid's observer, and the list requests settling in any order
BrowseNext ==
    \/ \E name \in Buckets : ~isLoading /\ selectBucket(name)
    \/ \E prefix \in Prefixes : ~isLoading /\ navigateToPrefix(prefix)
    \/ ~isLoading /\ goToParent
    \/ ~isLoading /\ refreshObjects
    \/ ~isLoading /\ NextPageEnabled /\ nextPage
    \/ ~isLoading /\ PrevPageEnabled /\ previousPage
    \/ \E mode \in {"list", "grid"} : ~isLoading /\ setViewMode(mode)
    \/ loadMoreGridItems
    \/ \E k \in DOMAIN pending, outcome \in OpOutcomes : ListSettles(k, outcome)

SpecBrowse == InitBrowse /\ [][BrowseNext]_vars

\* the list view: a bucket is chosen and its pages are gone through, the list
\* requests succeeding or failing
PagingNext ==
    \/ \E name \in Buckets : ~isLoading /\ selectBucket(name)
    \/ ~isLoading /\ NextPageEnabled /\ nextPage
    \/ ~isLoading /\ PrevPageEnabled /\ previousPage
    \/ \E k \in DOMAIN pending, outcome \in OpOutcomes : ListSettles(k, outcome)

SpecPaging == InitBrowse /\ [][PagingNext]_vars

\* upload batches under small limits while the user goes to other buckets and folders
UploadNavNext ==
    \/ \E b \in OneBatch, fps \in FileLists, n \in 1..MaxLimit : uploadFilesWithTasks(b, fps, n)
    \/ \E b \in OneBatch, i \in 1..MaxFiles : UploadSettles(b, i, Fulfilled)
    \/ \E b \in OneBatch : UploadRefreshSettles(b, Fulfilled)
    \/ \E name \in Buckets : requestsMade < MaxClicks /\ selectBucket(name)
    \/ \E prefix \in Prefixes : requestsMade < MaxClicks /\ navigateToPrefix(prefix)
    \/ \E k \in DOMAIN pending : ListSettles(k, Fulfilled)

\* a profile and a bucket selected
InitUploadNav == Init /\ Selected

SpecUploadNav == InitUploadNav /\ [][UploadNavNext]_vars

\* api.deleteObjects resolves with no per-key error
DeletedAll == [ok |-> TRUE, nerrors |-> 0, err |-> ""]

\* the grid and list of two buckets, rows ticked and deleted from what is on display
DeleteNext ==
    \/ \E name \in Buckets : ~isLoading /\ selectBucket(name)
    \/ \E mode \in {"list", "grid"} : ~isLoading /\ setViewMode(mode)
    \/ loadMoreGridItems
    \/ \E k \in DOMAIN pending : ListSettles(k, Fulfilled)
    \/ \E key \in DisplayedKeys : ~isLoading /\ toggleObjectSelection(key, TRUE)
    \/ \E o \in OpIds, key \in DisplayedKeys : ~isLoading /\ DeleteRow(o, key)
    \/ \E o \in OpIds : ~isLoading /\ DeleteTicked(o)
    \/ \E o \in OpIds : DeleteSettles(o, Fulfilled)
    \/ \E o \in OpIds : DeleteSelectedSettles(o, DeletedAll)
    \/ \E o \in OpIds : OpRefreshSettles(o, Fulfilled)

SpecDelete == InitBrowse /\ [][DeleteNext]_vars

\* messages shown earlier, none of them scrolled
InitErrors ==
    TasksInit /\ Selected /\ errors \in ScrollableMessages /\ SearchInit /\ SyncIdle /\ WatchInit

SpecErrors == InitErrors /\ [][ErrorsNext]_vars

\* a profile and a bucket selected, the local root there or not
InitSyncUi == UiInit /\ Selected /\ SearchInit /\ SyncUiInit /\ WatchInit

SpecSyncUi == InitSyncUi /\ [][SyncUiNext]_vars

\* a profile and a bucket selected
InitWatch == Init /\ Selected

\* one watch session
SpecWatch == InitWatch /\ [][WatchNext]_vars

\* ------------------------------------------------------------------------
\* Properties of upload batches
\* ------------------------------------------------------------------------
Started(b) == batch[b].phase # "idle"

Finished(b) == batch[b].phase \in {"refresh", "done"}

Items(b) == 1..Len(batch[b].taskIds)

InQueue(b, i) == \E k \in 1..Len(batch[b].queue) : batch[b].queue[k] = i

\* the items of batch b whose task is shown in status s
ItemsInStatus(b, s) ==
    {i \in Items(b) : /\ HasTask(tasks, batch[b].taskIds[i])
                      /\ StatusOf(tasks, batch[b].taskIds[i]) = s}

LogOf(b, i) == statusLog[batch[b].taskIds[i]]

Last(log) == log[Len(log)]

Rejected(b, i) == uploadOutcomes[b][i] # Undefined /\ ~uploadOutcomes[b][i][1].ok

Resolved(b, i) == uploadOutcomes[b][i] # Undefined /\ uploadOutcomes[b][i][1].ok

\* C1: in every reachable state of an upload batch run with limit N >= 1, the
\* operations started and not yet settled, the promises in `running` and the
\* batch's tasks in status running each number at most N.
C1_AtMostNRunning ==
    \A b \in BatchIds :
        Started(b) =>
            /\ batch[b].concurrency >= 1
            /\ Cardinality(batch[b].inflight) <= batch[b].concurrency
            /\ Len(batch[b].running) <= batch[b].concurrency
            /\ Cardinality(ItemsInStatus(b, "running")) <= batch[b].concurrency

\* C1 witness: the cap binds: N tasks are running, an earlier one has settled and
\* another item still waits in the queue.
C1_Witness ==
    \E b \in BatchIds :
        /\ batch[b].phase = "run"
        /\ Cardinality(ItemsInStatus(b, "running")) = batch[b].concurrency
        /\ Len(batch[b].queue) > 0
        /\ \E i \in Items(b) : uploadOutcomes[b][i] # Undefined

\* C2: api.uploadFile is invoked exactly once per item over the run of a batch:
\* not at all while the item waits in the queue, once from its dispatch on, also
\* after its upload failed, and once for every item when the batch has finished.
C2_UploadInvokedExactlyOnce ==
    \A b \in BatchIds :
        Started(b) =>
            /\ \A i \in Items(b) : uploadCalls[b][i] = IF InQueue(b, i) THEN 0 ELSE 1
            /\ Finished(b) => \A i \in Items(b) : uploadCalls[b][i] = 1

\* C2 witness: a batch of several items has finished and one of its uploads failed.
C2_Witness ==
    \E b \in BatchIds :
        /\ Finished(b)
        /\ Len(batch[b].taskIds) >= 2
        /\ \E i \in Items(b) : Rejected(b, i)
        /\ \A i \in Items(b) : uploadCalls[b][i] = 1

StatusHistories ==
    {<<"pending">>, <<"pending", "running">>, <<"pending", "running", "completed">>,
     <<"pending", "running", "failed">>}

\* C3: in a batch of size K run with cap N < K, the statuses given to each task
\* are pending, then running once, then one terminal status; the task shown has
\* the last status given, and when the batch has finished every history is complete.
C3_PendingRunningTerminal ==
    \A b \in BatchIds :
        (Started(b) /\ batch[b].concurrency < Len(batch[b].taskIds)) =>
            \A i \in Items(b) :
                /\ LogOf(b, i) \in StatusHistories
                /\ HasTask(tasks, batch[b].taskIds[i]) =>
                       StatusOf(tasks, batch[b].taskIds[i]) = Last(LogOf(b, i))
                /\ Finished(b) => Len(LogOf(b, i)) = 3

\* C3 witness: a batch with N < K has finished with a completed and a failed task.
C3_Witness ==
    \E b \in BatchIds :
        /\ Finished(b)
        /\ batch[b].concurrency < Len(batch[b].taskIds)
        /\ \E i, j \in Items(b) :
               /\ LogOf(b, i) = <<"pending", "running", "completed">>
               /\ LogOf(b, j) = <<"pending", "running", "failed">>

\* C4: a failed upload marks its task failed with the rejection reason recorded on
\* it, a resolved upload marks its task completed, a running batch always has an
\* upload outstanding, and a finished batch has dispatched every item and given
\* every task its own terminal status, whichever uploads failed.
C4_FailureDoesNotAbort ==
    \A b \in BatchIds :
        Started(b) =>
            /\ \A i \in Items(b) :
                   /\ Rejected(b, i) =>
                          /\ Last(LogOf(b, i)) = "failed"
                          /\ HasTask(tasks, batch[b].taskIds[i]) =>
                                 tasks[FindTask(tasks, batch[b].taskIds[i])].error =
                                     Some(String(uploadOutcomes[b][i][1].err))
                   /\ Resolved(b, i) => Last(LogOf(b, i)) = "completed"
                   /\ Finished(b) => uploadOutcomes[b][i] # Undefined
            /\ batch[b].phase = "run" => batch[b].inflight # {}

\* C4 witness: with one upload at a time, the first upload failed and the second
\* was dispatched afterwards and completed; the batch has finished.
C4_Witness ==
    \E b \in BatchIds :
        /\ Finished(b)
        /\ batch[b].concurrency = 1
        /\ Len(batch[b].taskIds) >= 2
        /\ Rejected(b, 1)
        /\ Resolved(b, 2)
        /\ HasTask(tasks, batch[b].taskIds[1])
        /\ tasks[FindTask(tasks, batch[b].taskIds[1])].status = "failed"

\* ------------------------------------------------------------------------
\* Properties of the task lifecycle
\* ------------------------------------------------------------------------
\* the statuses a task in status s may have after one step
NextStatuses(s) ==
    IF s = "pending" THEN {"pending", "running"}
    ELSE IF s = "running" THEN {"running", "completed", "failed"}
    ELSE {s}

\* C5: for tasks of every type, a step never changes a completed or failed status,
\* never takes a pending task to a terminal status, and a task enters the list
\* pending or running.
C5_Lifecycle ==
    [][\A j \in 1..Len(tasks') :
           IF HasTask(tasks, tasks'[j].id)
           THEN tasks'[j].status \in NextStatuses(StatusOf(tasks, tasks'[j].id))
           ELSE tasks'[j].status \in {"pending", "running"}]_vars

\* C5 witness: tasks of three types are listed, one completed, one failed and
\* a keepsync task running with its session id.
C5_Witness ==
    /\ \E j \in 1..Len(tasks) : tasks[j].type = "upload" /\ tasks[j].status = "completed"
    /\ \E j \in 1..Len(tasks) : tasks[j].type = "delete" /\ tasks[j].status = "failed"
    /\ \E j \in 1..Len(tasks) :
           /\ tasks[j].type = "keepsync"
           /\ tasks[j].status = "running"
           /\ tasks[j].syncId # Undefined

\* ------------------------------------------------------------------------
\* Properties of the search debounce
\* ------------------------------------------------------------------------
\* event k is the last of its burst: no event follows it within the debounce window
EndsBurst(k) ==
    k = Len(inputEvents) \/ inputEvents[k + 1].at - inputEvents[k].at >= DEBOUNCE_MS

\* the debounce runs issued after event k and not after the event that follows it
RunsAfter(k) ==
    {j \in 1..Len(loadCalls) :
        /\ loadCalls[j].by = "debounce"
        /\ loadCalls[j].at > inputEvents[k].at
        /\ k < Len(inputEvents) => loadCalls[j].at <= inputEvents[k + 1].at}

\* C10: input events that each arrive less than 300 ms after the previous one
\* cause no run before the last of them and exactly one loadObjects call after
\* it, made 300 ms after the last event with that event's value as searchPrefix.
C10_DebounceCoalesces ==
    \A k \in 1..Len(inputEvents) :
        IF EndsBurst(k) /\ ~(k = Len(inputEvents) /\ timers # {})
        THEN /\ Cardinality(RunsAfter(k)) = 1
             /\ \A j \in RunsAfter(k) :
                    /\ loadCalls[j].searchPrefix = inputEvents[k].value
                    /\ loadCalls[j].at = inputEvents[k].at + DEBOUNCE_MS
        ELSE RunsAfter(k) = {}

\* C10 witness: three events with different values, each less than 300 ms after
\* the previous one, and the one run they caused, made with the last value.
C10_Witness ==
    /\ Len(inputEvents) = 3
    /\ ~EndsBurst(1) /\ ~EndsBurst(2)
    /\ inputEvents[1].at < inputEvents[2].at
    /\ inputEvents[1].value # inputEvents[3].value
    /\ inputEvents[2].value # inputEvents[3].value
    /\ timers = {}
    /\ Cardinality({j \in 1..Len(loadCalls) : loadCalls[j].by = "debounce"}) = 1
    /\ searchPrefix = inputEvents[3].value

\* ------------------------------------------------------------------------
\* Properties of the sync engine
\* ------------------------------------------------------------------------
\* the operations of the batch on one relative path
OpsOn(p) == {i \in 1..Len(syncBatch.tasks) : syncBatch.tasks[i].path = p}

\* the entries of a pair of side mappings: the paths present on either side
Entries(l, r) == {p \in SyncPathSet : l[p] # Absent \/ r[p] # Absent}

\* C6: within one batch no delete has begun or completed while a transfer of
\* the batch is still pending or running; once every transfer has succeeded or
\* failed, a pending delete can be dispatched as soon as a slot is free, also
\* when a transfer of another path has failed.
C6_DeletesAfterTransfers ==
    \A i \in 1..Len(syncBatch.tasks) :
        syncBatch.tasks[i].kind \in DeleteKinds =>
            /\ syncBatch.tasks[i].status # "pending" => TransfersOver(syncBatch)
            /\ ( /\ syncBatch.phase = "running"
                 /\ syncBatch.tasks[i].status = "pending"
                 /\ TransfersOver(syncBatch)
                 /\ Cardinality(SyncRunning(syncBatch)) < syncBatch.limit )
               => ENABLED SyncDispatch(i)

\* C6 witness: a finished batch in which the upload of one path failed and the
\* delete of another path was carried out.
C6_Witness ==
    /\ syncBatch.phase = "done"
    /\ \E i, j \in 1..Len(syncBatch.tasks) :
          /\ syncBatch.tasks[i].kind = "Upload"
          /\ syncBatch.tasks[i].status = "failed"
          /\ syncBatch.tasks[j].kind = "DeleteRemote"
          /\ syncBatch.tasks[j].status = "completed"
          /\ syncBatch.tasks[i].path # syncBatch.tasks[j].path

\* the second of two sync_once calls with the same arguments and no change in
\* between has finished
SecondRunDone == syncBatch.phase = "done" /\ syncBatch.repeat

NothingToDo ==
    /\ syncBatch.result.uploaded = 0
    /\ syncBatch.result.downloaded = 0
    /\ syncBatch.result.deleted = 0
    /\ syncBatch.result.skipped =
          Cardinality(Entries(syncBatch.snapLocal, syncBatch.snapRemote))

ExpectedLocalToRemote(l, r) ==
    IF r = Absent THEN "Upload"
    ELSE IF l = Absent THEN "Skip"
    ELSE IF l = r THEN "Skip"
    ELSE "Upload"

\* C8: with direction LocalToRemote the plan holds exactly one operation for
\* each path present on either side and none for any other path: Upload for a
\* path only local or on both sides with different fingerprints, Skip for equal
\* fingerprints, and, orphan deletion not enabled, Skip for a path only remote.
C8_LocalToRemotePlan ==
    (syncBatch.phase # "idle" /\ syncBatch.direction = "local_to_remote") =>
        \A p \in SyncPathSet :
            LET l == syncBatch.snapLocal[p]
                r == syncBatch.snapRemote[p]
            IN  IF p \notin Entries(syncBatch.snapLocal, syncBatch.snapRemote)
                THEN OpsOn(p) = {}
                ELSE /\ Cardinality(OpsOn(p)) = 1
                     /\ (l # Absent \/ ~syncBatch.deleteOrphans) =>
                            \A i \in OpsOn(p) :
                                syncBatch.tasks[i].kind = ExpectedLocalToRemote(l, r)

\* C8 witness: a LocalToRemote batch without orphan deletion whose snapshot has
\* one path on both sides with different fingerprints and one path only remote.
C8_Witness ==
    /\ syncBatch.phase # "idle"
    /\ syncBatch.direction = "local_to_remote"
    /\ ~syncBatch.deleteOrphans
    /\ \E p, q \in SyncPathSet :
          /\ syncBatch.snapLocal[p] \in Fingerprints
          /\ syncBatch.snapRemote[p] \in Fingerprints
          /\ syncBatch.snapLocal[p] # syncBatch.snapRemote[p]
          /\ syncBatch.snapLocal[q] = Absent
          /\ syncBatch.snapRemote[q] \in Fingerprints
          /\ \E i \in OpsOn(p) : syncBatch.tasks[i].kind = "Upload"
          /\ \E i \in OpsOn(q) : syncBatch.tasks[i].kind = "Skip"

\* ------------------------------------------------------------------------
\* Properties of the watch session
\* ------------------------------------------------------------------------
\* C9: a watch session never has more than one reconciliation in flight; when
\* a reconciliation ends, one further run starts if a trigger arrived while it
\* was running and the session is still watching, and none otherwise.
C9_SingleInFlight ==
    [][ /\ inFlight' <= 1
        /\ watchEvents' # watchEvents =>
              runsStarted' - runsStarted =
                 IF midRunTriggers > 0 /\ watchState = "watching" THEN 1 ELSE 0
      ]_vars

\* C9 witness: two triggers arrived while a reconciliation was running, it has
\* ended, and the one further run they caused is the only one in flight.
C9_Witness ==
    /\ fsEvents >= 3
    /\ Len(watchEvents) = 1
    /\ runsStarted = 2
    /\ inFlight = 1
    /\ queuedRuns = 0
    /\ ~debounceArmed

\* ------------------------------------------------------------------------
\* Properties of the task panel
\* ------------------------------------------------------------------------
\* the panel as last rendered shows task taskId in status status
Shows(taskId, status) ==
    \E k \in 1..Len(lastRender) :
        lastRender[k].id = taskId /\ lastRender[k].status = status

\* C11 as stated: every status transition of a batch gets a render of its own
\* before the batch ends: a running task leaves Running only after a render has
\* shown it running, and when the batch ends the panel shows every task of the
\* batch in its terminal status.
C11_Original ==
    [][ /\ \A j \in 1..Len(tasks) :
              ( /\ tasks[j].status = "running"
                /\ HasTask(tasks', tasks[j].id)
                /\ StatusOf(tasks', tasks[j].id) # "running" )
              => Shows(tasks[j].id, "running")
        /\ \A b \in BatchIds :
              (~Finished(b) /\ Finished(b)') =>
                  \A i \in Items(b)' : \E k \in 1..Len(lastRender') :
                      /\ lastRender'[k].id = batch'[b].taskIds[i]
                      /\ lastRender'[k].status \in TerminalStatus
      ]_vars

\* C11 amended: every status transition requests a render, and renders are made
\* once per animation frame: whenever no render is pending, the panel shows each
\* of the first MAX_VISIBLE_TASKS tasks in its present status, with its present
\* status text.
C11_RenderPendingOrCurrent ==
    ~renderScheduled => lastRender = renderTasks(tasks)

\* C11 witness: in the middle of a batch a frame has rendered the panel: it shows
\* one task of the batch completed and another still running, and no render is
\* pending.
C11_Witness ==
    /\ ~renderScheduled
    /\ \E b \in BatchIds :
          /\ batch[b].phase = "run"
          /\ \E i, j \in Items(b) :
                /\ Shows(batch[b].taskIds[i], "completed")
                /\ Shows(batch[b].taskIds[j], "running")

\* C19: under any limit N >= 1, if every upload in flight settles in the end, a
\* batch that is running finishes in the end, and whenever a batch has finished
\* the last status given to each of its tasks is completed or failed.
C19_BatchTerminates ==
    \A b \in OneBatch :
        /\ (batch[b].phase = "run") ~> Finished(b)
        /\ [](Finished(b) =>
                \A i \in Items(b) : Last(LogOf(b, i)) \in TerminalStatus)

\* C19 witness: a batch of more items than its limit has finished, after one of
\* its uploads failed.
C19_Witness ==
    \E b \in OneBatch :
        /\ Finished(b)
        /\ batch[b].concurrency >= 1
        /\ Len(batch[b].taskIds) > batch[b].concurrency
        /\ \E i \in Items(b) : Rejected(b, i)
        /\ \A i \in Items(b) : Last(LogOf(b, i)) \in TerminalStatus

\* C20: the items of a batch are started in the order of the input list: the
\* queue is always the rest of the list from some item on, in list order, so that
\* an item has been started only if every item before it has; and the promises
\* in `running` stand in the order of the list, whichever of them settled first.
C20_DispatchInInputOrder ==
    \A b \in BatchIds :
        Started(b) =>
            /\ \E m \in 0..Len(batch[b].taskIds) :
                  batch[b].queue = [k \in 1..(Len(batch[b].taskIds) - m) |-> m + k]
            /\ \A j, k \in 1..Len(batch[b].running) :
                  j < k => batch[b].running[j] < batch[b].running[k]
            /\ \A i, j \in Items(b) :
                  (i < j /\ uploadCalls[b][j] > 0) => uploadCalls[b][i] > 0

\* C20 witness: under a limit of two the second item settled while the first was
\* still in flight, and the third item was started in the freed slot.
C20_Witness ==
    \E b \in BatchIds :
        /\ batch[b].concurrency = 2
        /\ Len(batch[b].taskIds) >= 3
        /\ batch[b].inflight = {1, 3}
        /\ uploadOutcomes[b][2] # Undefined
        /\ batch[b].running = <<1, 3>>

\* the tasks of batch b with the status each is shown in, those cleared left out
ShownStatuses(ts, b) ==
    {<<batch[b].taskIds[i], StatusOf(ts, batch[b].taskIds[i])>> :
        i \in {k \in Items(b) : HasTask(ts, batch[b].taskIds[k])}}

\* C17: with two upload batches under way at once, each batch keeps at most its
\* own limit of its own operations running, and an item waits in a batch's queue
\* only while that batch's own limit is reached, whatever the other batch is
\* doing; a step of one batch leaves the other batch's queue, running list,
\* invocation counts and task statuses as they were; and in either batch
\* api.uploadFile is invoked once per item, never while the item is queued.
C17_BatchesIndependent ==
    [][ \A b \in BatchIds :
          /\ Started(b)' =>
                /\ Cardinality(batch'[b].inflight) <= batch'[b].concurrency
                /\ Len(batch'[b].running) <= batch'[b].concurrency
                /\ Len(batch'[b].queue) > 0 =>
                       Cardinality(batch'[b].inflight) = batch'[b].concurrency
                /\ \A i \in 1..Len(batch'[b].taskIds) :
                       uploadCalls'[b][i] =
                           IF \E k \in 1..Len(batch'[b].queue) : batch'[b].queue[k] = i
                           THEN 0 ELSE 1
          /\ \A c \in BatchIds \ {b} :
                batch'[b] # batch[b] =>
                    /\ batch'[c] = batch[c]
                    /\ uploadCalls'[c] = uploadCalls[c]
                    /\ uploadOutcomes'[c] = uploadOutcomes[c]
                    /\ ShownStatuses(tasks', c) = ShownStatuses(tasks, c)
      ]_vars

\* C17 witness: both batches are running; one has reached its limit with an item
\* still queued while the other, below its own limit, has an upload in flight.
C17_Witness ==
    \E b, c \in BatchIds :
        /\ b # c
        /\ batch[b].phase = "run"
        /\ batch[c].phase = "run"
        /\ Len(batch[b].queue) > 0
        /\ Cardinality(batch[b].inflight) = batch[b].concurrency
        /\ Cardinality(batch[c].inflight) > 0
        /\ Cardinality(batch[b].inflight) + Cardinality(batch[c].inflight) > batch[b].concurrency

\* C18: a step that removes tasks from the list removes every completed and
\* every failed task and no other: each pending or running task is still listed,
\* unchanged, and in the same order as before; and when the upload of an item in
\* flight settles, its task is in the list and takes the terminal status, also
\* after the list has been cleared.
C18_ClearKeepsActiveTasks ==
    [][ /\ Len(tasks') < Len(tasks) =>
              /\ \A j \in 1..Len(tasks) :
                    IF tasks[j].status \in TerminalStatus
                    THEN ~HasTask(tasks', tasks[j].id)
                    ELSE /\ HasTask(tasks', tasks[j].id)
                         /\ tasks'[FindTask(tasks', tasks[j].id)] = tasks[j]
              /\ \A j, k \in 1..Len(tasks) :
                    ( /\ j < k
                      /\ tasks[j].status \notin TerminalStatus
                      /\ tasks[k].status \notin TerminalStatus )
                    => FindTask(tasks', tasks[j].id) < FindTask(tasks', tasks[k].id)
              /\ \A j \in 1..Len(tasks') : HasTask(tasks, tasks'[j].id)
        /\ \A b \in BatchIds : \A i \in Items(b) :
              (i \in batch[b].inflight /\ i \notin batch'[b].inflight) =>
                  /\ HasTask(tasks', batch[b].taskIds[i])
                  /\ StatusOf(tasks', batch[b].taskIds[i]) \in TerminalStatus
      ]_vars

\* C18 witness: the list was cleared in the middle of a batch: one task of the
\* batch is gone, and another, which was running then, has since taken its
\* terminal status and is listed with it.
C18_Witness ==
    \E b \in BatchIds : \E i, k \in Items(b) :
        /\ ~HasTask(tasks, batch[b].taskIds[i])
        /\ HasTask(tasks, batch[b].taskIds[k])
        /\ StatusOf(tasks, batch[b].taskIds[k]) \in TerminalStatus

\* ------------------------------------------------------------------------
\* Properties of the backend events
\* ------------------------------------------------------------------------
EventMessages ==
    {EventMessage("sync-progress", p) : p \in SyncProgressPayloads}
        \cup {EventMessage("sync-completed", p) : p \in SyncCompletedPayloads}
        \cup {EventMessage("sync-error", p) : p \in SyncErrorPayloads}

\* C12: a sync-progress, sync-completed or sync-error event changes no task and
\* removes none, so a keepsync task with a session id stays running; the event
\* puts one message at the head of the message list and keeps the earlier
\* messages in order, the oldest at most falling off the end.
C12_EventsOnlyAddMessages ==
    [][ tauriEvents' # tauriEvents =>
          /\ tasks' = tasks
          /\ \A j \in 1..Len(tasks) :
                (tasks[j].type = "keepsync" /\ tasks[j].syncId # Undefined) =>
                    tasks'[j].status = "running"
          /\ Len(errors') >= 1
          /\ Len(errors') >= Len(errors)
          /\ errors'[1] \in EventMessages
          /\ Tail(errors') = SubSeq(errors, 1, Len(errors') - 1)
      ]_vars

\* C12 witness: after start_keep_sync resolved, two sync-error events have
\* arrived and the keepsync task is still running.
C12_Witness ==
    /\ Len(errors) >= 3
    /\ errors[1][1] = "Sync error: "
    /\ errors[2][1] = "Sync error: "
    /\ errors[3][1] = "KeepSync started: "
    /\ \E j \in 1..Len(tasks) :
          /\ tasks[j].type = "keepsync"
          /\ tasks[j].syncId # Undefined
          /\ tasks[j].status = "running"

\* ------------------------------------------------------------------------
\* Properties of the keep-sync start
\* ------------------------------------------------------------------------
\* the step in which operation o's start_keep_sync call settles
KeepSyncSettling(o) ==
    ops[o].pc = "api" /\ ops[o].kind = "keepsync" /\ ops'[o].pc # "api"

\* C13: a keepsync task that has a session id is running, and a failed keepsync
\* task has none and carries the rejection reason; the status and the session id
\* of a keepsync task change only in the step in which its start_keep_sync call
\* settles: rejected, the running task becomes failed with the reason and stays
\* without a session id; resolved, it gets the session id and stays running.
C13_StartFailureIsFatal ==
    [][ \A j \in 1..Len(tasks') :
          tasks'[j].type = "keepsync" =>
            /\ tasks'[j].syncId # Undefined => tasks'[j].status = "running"
            /\ tasks'[j].status = "failed" =>
                  /\ tasks'[j].syncId = Undefined
                  /\ tasks'[j].error \in {Some(String(e)) : e \in OpErrs}
            /\ IF ~HasTask(tasks, tasks'[j].id)
               THEN tasks'[j].status = "running" /\ tasks'[j].syncId = Undefined
               ELSE LET t == tasks[FindTask(tasks, tasks'[j].id)]
                    IN  IF \E o \in OpIds : KeepSyncSettling(o) /\ ops[o].taskId = t.id
                        THEN /\ t.status = "running"
                             /\ t.syncId = Undefined
                             /\ \/ /\ tasks'[j].status = "failed"
                                   /\ tasks'[j].syncId = Undefined
                                   /\ errors' = errors
                                \/ /\ tasks'[j].status = "running"
                                   /\ tasks'[j].syncId \in {Some(i) : i \in SyncIds}
                                   /\ errors'[1][1] = "KeepSync started: "
                        ELSE tasks'[j] = t
      ]_vars

\* C13 witness: one start_keep_sync call was rejected and another resolved: a
\* failed keepsync task without a session id next to a running one with its id.
C13_Witness ==
    \E j, k \in 1..Len(tasks) :
        /\ tasks[j].type = "keepsync"
        /\ tasks[j].status = "failed"
        /\ tasks[j].error = Some(String("E1"))
        /\ tasks[j].syncId = Undefined
        /\ tasks[k].type = "keepsync"
        /\ tasks[k].status = "running"
        /\ tasks[k].syncId # Undefined

\* ------------------------------------------------------------------------
\* Properties of the one-shot sync
\* ------------------------------------------------------------------------
\* the step in which the promise of operation o's api.syncFolder call settles
SyncFolderSettling(o) ==
    ops[o].pc = "api" /\ ops[o].kind = "sync" /\ ops'[o].pc # "api"

\* C14: a batch begun on a local root that cannot be enumerated is aborted at
\* once: it fails with IoError, holds no operation, counts nothing and leaves
\* both sides as they were; and when the sync_folder call of a task answers with
\* that failure, the task becomes failed with the IoError as its reason.
C14_EnumerationFailureAborts ==
    [][ /\ (syncRuns' # syncRuns /\ localRoot = "missing") => syncBatch'.phase = "failed"
        /\ syncBatch'.phase = "failed" =>
              /\ syncBatch'.error = "IoError"
              /\ syncBatch'.tasks = <<>>
              /\ syncBatch'.result = ZeroResult
              /\ local' = local
              /\ remote' = remote
        /\ \A o \in OpIds :
              (SyncFolderSettling(o) /\ syncBatch.phase = "failed") =>
                  /\ syncCall = ops[o].taskId
                  /\ StatusOf(tasks', ops[o].taskId) = "failed"
                  /\ tasks'[FindTask(tasks', ops[o].taskId)].error = Some(String("IoError"))
      ]_vars

\* C14 witness: a sync from the page ran into a missing local root: its batch
\* failed without an operation and its task is failed with the reason.
C14_Witness ==
    /\ localRoot = "missing"
    /\ syncBatch.phase = "failed"
    /\ syncBatch.tasks = <<>>
    /\ \E j \in 1..Len(tasks) :
          /\ tasks[j].id = syncCall
          /\ tasks[j].type = "sync"
          /\ tasks[j].status = "failed"
          /\ tasks[j].error = Some(String("IoError"))

\* C16: a sync task whose api.syncFolder call has not settled has been given no
\* terminal status; once the call has settled the task has been given exactly
\* one, which is its status from then on: completed, without a reason, in the
\* step in which the call resolves, and failed, with the rejection reason, in
\* the step in which it rejects.
C16_OneTerminalOutcome ==
    [][ /\ \A j \in 1..Len(tasks') :
              tasks'[j].type = "sync" =>
                  LET id == tasks'[j].id
                  IN  IF \E o \in OpIds : ops'[o].pc = "api" /\ ops'[o].taskId = id
                      THEN statusLog'[id] = <<"pending", "running">>
                      ELSE /\ statusLog'[id] \in {<<"pending", "running", "completed">>,
                                                  <<"pending", "running", "failed">>}
                           /\ tasks'[j].status = statusLog'[id][3]
                           /\ tasks'[j].status = "completed" => tasks'[j].error = Undefined
                           /\ tasks'[j].status = "failed" =>
                                  tasks'[j].error \in {Some(String(e)) : e \in OpErrs}
        /\ \A o \in OpIds :
              SyncFolderSettling(o) =>
                  LET t == tasks'[FindTask(tasks', ops[o].taskId)]
                  IN  \/ /\ t.status = "completed"
                         /\ Len(errors') > 0
                         /\ errors'[1][1] = "Sync complete: "
                      \/ t.status = "failed" /\ errors' = errors
      ]_vars

\* C16 witness: one sync call has resolved and another has been rejected: a
\* completed sync task next to a failed one.
C16_Witness ==
    \E j, k \in 1..Len(tasks) :
        /\ tasks[j].type = "sync"
        /\ statusLog[tasks[j].id] = <<"pending", "running", "completed">>
        /\ tasks[k].type = "sync"
        /\ statusLog[tasks[k].id] = <<"pending", "running", "failed">>

\* ------------------------------------------------------------------------
\* Properties of the failure reports
\* ------------------------------------------------------------------------
\* the parts of a message
Parts(message) == {message[n] : n \in 1..Len(message)}

\* C15: every failed task carries the folder name it was created for, and every
\* sync-error message in the message list names the session (sync_id) it came
\* from.
C15_FailuresAttributable ==
    /\ \A j \in 1..Len(tasks) :
          tasks[j].status = "failed" =>
              tasks[j].fileName \in {FolderName(f) : f \in FilePaths}
    /\ \A k \in 1..Len(errors) :
          errors[k][1] = "Sync error: " => Parts(errors[k]) \cap EventSyncIds # {}

\* ------------------------------------------------------------------------
\* Task ids
\* ------------------------------------------------------------------------
TaskIds(ts) == {ts[k].id : k \in 1..Len(ts)}

TaskWithId(ts, id) == ts[FindTask(ts, id)]

\* what updateTaskStatus writes: the status, and the error when one is given
StatusAndError(t) == <<t.status, t.error>>

\* C28: no two tasks ever created share an id, the id of a cleared task is never
\* given to a later task, and a step changes the status or error of a task only
\* through updateTaskStatus called with that id (the task then shows the status given);
\* a call for a cleared id changes no task
C28_TaskIdsUnique ==
    [][/\ \A j, k \in 1..Len(tasks') : tasks'[j].id = tasks'[k].id => j = k
       /\ \A id \in TaskIds(tasks') \ TaskIds(tasks) :
              id > taskIdCounter /\ id <= taskIdCounter'
       /\ \A id \in TaskIds(tasks') \cap TaskIds(tasks) :
              StatusAndError(TaskWithId(tasks', id)) # StatusAndError(TaskWithId(tasks, id))
                  => /\ statusLog'[id] # statusLog[id]
                     /\ TaskWithId(tasks', id).status = Last(statusLog'[id])
       /\ \A id \in DOMAIN statusLog \ TaskIds(tasks) : statusLog'[id] = statusLog[id]
      ]_vars

\* a task was cleared, and two tasks created since are in the list, one of them finished
C28_Witness ==
    \E id \in 1..taskIdCounter :
        /\ ~HasTask(tasks, id)
        /\ Len(tasks) >= 2
        /\ \E k \in 1..Len(tasks) : tasks[k].id > id /\ tasks[k].status \in TerminalStatus

\* ------------------------------------------------------------------------
\* The listing after an upload batch
\* ------------------------------------------------------------------------
\* every task of the batch has been given a terminal status and no upload is in flight
BatchSettled(b) ==
    /\ batch[b].inflight = {}
    /\ \A k \in 1..Len(batch[b].taskIds) :
           Last(statusLog[batch[b].taskIds[k]]) \in TerminalStatus

\* C24: per upload batch the trailing loadObjects() lists exactly once: the list
\* request is made in the step that gives the last task its terminal status, never
\* before, and the batch is done only when that one request has settled
C24_RefreshOnceAfterAll ==
    [][\A b \in BatchIds :
           /\ batch'[b].phase = "refresh" /\ batch[b].phase # "refresh"
                  => batch[b].phase = "run" /\ ~BatchSettled(b) /\ BatchSettled(b)'
           /\ batch[b].phase = "run" /\ BatchSettled(b)' /\ Selected
                  => batch'[b].phase = "refresh"
           /\ batch[b].phase = "refresh" => batch'[b].phase \in {"refresh", "done"}
           /\ batch'[b].phase = "done" /\ batch[b].phase # "done" /\ Selected
                  => batch[b].phase = "refresh"
      ]_vars

\* a batch of three whose listing was refreshed, one upload having failed
C24_Witness ==
    \E b \in BatchIds :
        /\ batch[b].phase = "done"
        /\ Len(batch[b].taskIds) = MaxFiles
        /\ \E i \in 1..MaxFiles : Rejected(b, i)
        /\ \E i \in 1..MaxFiles : Resolved(b, i)

\* ------------------------------------------------------------------------
\* The message list
\* ------------------------------------------------------------------------
\* C29: after any sequence of showError, scrollErrors(+1 / -1) and clearErrors the
\* list holds at most 50 messages and 0 <= errorScrollIndex <= max(0, errors.length - 5)
C29_ScrollIndexInRange ==
    /\ Len(errors) <= MAX_ERRORS
    /\ 0 <= errorScrollIndex
    /\ errorScrollIndex <= Max(0, Len(errors) - VISIBLE_ERRORS)

\* the full list scrolled to its last window, the oldest message pushed out
C29_Witness ==
    /\ Len(errors) = MAX_ERRORS
    /\ tauriEvents >= 2
    /\ errorScrollIndex = MAX_ERRORS - VISIBLE_ERRORS

\* ------------------------------------------------------------------------
\* The object browser
\* ------------------------------------------------------------------------
\* C21: whatever the interleaving of navigation and list responses, the listing
\* on display is never the answer to a request that was made before a request
\* whose answer has been shown already: an older response never overwrites a
\* newer one
C21_LatestResponseShown == objects # Undefined => ~objects[1].overtaken

\* the ordinal of the page on display
DisplayedPage == PageOf(objects[1].token)

\* C25: in the list view, with no request in flight, tokenHistory.length + 1 is
\* the ordinal of the page on display, and that page was fetched with the last
\* token of tokenHistory (the first page with none)
C25_HistoryMatchesPage ==
    viewMode = "list" /\ pending = <<>> /\ objects # Undefined
        => /\ Len(tokenHistory) + 1 = DisplayedPage
           /\ objects[1].token = (IF tokenHistory = <<>> THEN Undefined
                                  ELSE Some(tokenHistory[Len(tokenHistory)]))

\* the append requests in flight
Appending == {k \in DOMAIN pending : pending[k].append}

\* C27: in the grid view at most one append list request is in flight at any time
C27_OneAppendInFlight == viewMode = "grid" => Cardinality(Appending) <= 1

\* C26: once the search text has been reset to empty, with the box empty too, it
\* stays empty in every step that is not an input event: no timer armed before
\* the reset applies its value afterwards
C26_ResetSearchStaysEmpty ==
    [][searchPrefix = "" /\ searchInputValue = "" /\ inputEvents' = inputEvents
           => searchPrefix' = ""]_vars

\* ------------------------------------------------------------------------
\* The destination of an upload batch
\* ------------------------------------------------------------------------
\* C23: every api.uploadFile call of a batch is made with the profile, bucket and
\* prefix that were current in the step that started uploadFilesWithTasks,
\* whatever the selection is when the call is made
C23_BatchKeepsItsTarget ==
    [][\A b \in BatchIds : \A i \in 1..Len(batch'[b].targets) :
           batch'[b].targets # batch[b].targets /\ batch'[b].targets[i] # Undefined
               => IF batch[b].phase \in {"idle", "done"}
                  THEN batch'[b].targets[i][1].target =
                           <<currentProfileId, currentBucket, currentPrefix>>
                  ELSE \A j \in 1..Len(batch[b].targets) :
                           batch[b].targets[j] # Undefined
                               => batch'[b].targets[i][1].target = batch[b].targets[j][1].target
      ]_vars

\* an upload was started after the user had gone to another bucket, and went to
\* the bucket of the batch
C23_Witness ==
    \E b \in BatchIds : \E i \in 1..Len(batch[b].targets) :
        /\ batch[b].targets[i] # Undefined
        /\ batch[b].targets[i][1].selection[2] # batch[b].targets[i][1].target[2]
        /\ batch[b].targets[i][1].target = batch[b].targets[1][1].target

\* ------------------------------------------------------------------------
\* Deleting from the listing
\* ------------------------------------------------------------------------
\* operation o calls its api in this step
CallsApi(o) == ops[o].pc = "idle" /\ ops'[o].pc = "api"

====
